---- MODULE Spec2Model ----
(***************************************************************************)
(* A model of the SFS vnode layer (kern/fs/sfs/sfs_vnode.c): the block     *)
(* allocator, the block map, file I/O, directories held in files, the      *)
(* vnode table with its reference counts, and the vnode operations, run by *)
(* threads that interleave at every vnode-lock acquisition.                *)
(*                                                                         *)
(* Sizes are counted in cells: one cell stands for one 32-bit word of a    *)
(* data block (a block pointer in an indirect block, a unit of file data,  *)
(* or one struct sfs_dir packed as ino * NNames + name).  The block size,  *)
(* the number of direct pointers and the disk size are scaled down.        *)
(***************************************************************************)
EXTENDS Integers, Sequences, FiniteSets, TLC

(***************************************************************************)
(* Bounds of the model.                                                    *)
(***************************************************************************)
\* number of blocks of the disk (sfs_super.sp_nblocks)
NBlocks == 11
\* cells per block
SFS_BLOCKSIZE == 2
\* direct block pointers per inode
SFS_NDIRECT == 2
\* file operations of one run of the file-I/O specification
MaxIOOps == 3
\* longest write request, in cells
MaxLen == 4
\* threads
NThreads == 2
\* vnode operations one thread calls in one run
MaxOps == 2
\* references one thread holds between its calls
MaxHeld == 1

(***************************************************************************)
(* Program constants.                                                      *)
(***************************************************************************)
SFS_DBPERIDB == SFS_BLOCKSIZE
SFS_TYPE_INVAL == 0
SFS_TYPE_FILE == 1
SFS_TYPE_DIR == 2
SFS_NOINO == 0
SFS_ROOT_LOCATION == 1
\* first block that is neither superblock, root inode nor free map

OK == "OK"
ENOSPC == "ENOSPC"
EINVAL == "EINVAL"
EIO == "EIO"
ENOENT == "ENOENT"
EEXIST == "EEXIST"
ENAMETOOLONG == "ENAMETOOLONG"
ENOTDIR == "ENOTDIR"
EBUSY == "EBUSY"
EUNIMP == "EUNIMP"
ENOTEMPTY == "ENOTEMPTY"
PANIC == "PANIC"

Blocks == 0 .. (NBlocks - 1)

Min(S) == CHOOSE x \in S : \A y \in S : x <= y

DIVROUNDUP(a, b) == (a + b - 1) \div b

(***************************************************************************)
(* Disk blocks.  A block has a cell region (data or block pointers) and an *)
(* inode region (struct sfs_inode); a zeroed block is zero in both.        *)
(***************************************************************************)
ZeroCells == [i \in 0 .. (SFS_BLOCKSIZE - 1) |-> 0]

ZeroInode ==
  [sfi_size |-> 0, sfi_type |-> SFS_TYPE_INVAL, sfi_linkcount |-> 0,
   sfi_direct |-> [i \in 0 .. (SFS_NDIRECT - 1) |-> 0], sfi_indirect |-> 0]

ZeroBlock == [cells |-> ZeroCells, ino |-> ZeroInode]

CellBlock(c) == [cells |-> c, ino |-> ZeroInode]

InodeBlock(i) == [cells |-> ZeroCells, ino |-> i]

(***************************************************************************)
(* The filesystem state threaded through the operators:                    *)
(*   freemap  the free-block bitmap, disk  the device's blocks,            *)
(*   vn       the vnode table (sfs_vnodes), panic  "none" or the panic,    *)
(*   io/failAt  the device request counter and the request that fails,     *)
(*   lk       which of sfs_vnlock and sfs_bitlock the running thread holds, *)
(*   log      what the running thread did in this step that the locking     *)
(*            protocol speaks of: [ev, held], a lock acquisition or a       *)
(*            device request ev made with the locks held in hand.           *)
(***************************************************************************)
Panic(s, msg) == IF s.panic = "none" THEN [s EXCEPT !.panic = msg] ELSE s

SV_LOCK == "sv_lock"
SFS_VNLOCK == "sfs_vnlock"
SFS_BITLOCK == "sfs_bitlock"
DEVICE_IO == "device io"
RETURN == "return"

\* the running thread does ev with the locks s.lk in hand
Event(s, ev) == [s EXCEPT !.log = @ \cup {[ev |-> ev, held |-> s.lk]}]

lock_acquire(s, lock) == [Event(s, lock) EXCEPT !.lk = @ \cup {lock}]

lock_release(s, lock) == [s EXCEPT !.lk = @ \ {lock}]

UNLOCKED == "inode touched without sv_lock"

\* the running thread reads or changes a mutable field of the inode of
\* vnode sv with the locks of the vnodes in `locks` in hand
Touch(s, sv, locks) == IF sv \in locks THEN s ELSE Event(s, UNLOCKED)

\* sfs_bitlock acquired and never released
BitlockedKept(s) == lock_acquire(s, SFS_BITLOCK)

\* a look at, or a change of, the free map: sfs_bitlock taken and released
Bitlocked(s) == lock_release(lock_acquire(s, SFS_BITLOCK), SFS_BITLOCK)

\* the device read: sfs_rblock
sfs_rblock(s, b) ==
  LET n == s.io + 1 IN
  IF n = s.failAt
    THEN [s |-> [Event(s, DEVICE_IO) EXCEPT !.io = n], res |-> EIO, data |-> ZeroBlock]
    ELSE [s |-> [Event(s, DEVICE_IO) EXCEPT !.io = n], res |-> OK, data |-> s.disk[b]]

\* the device write: sfs_wblock
sfs_wblock(s, data, b) ==
  LET n == s.io + 1 IN
  IF n = s.failAt
    THEN [s |-> [Event(s, DEVICE_IO) EXCEPT !.io = n], res |-> EIO]
    ELSE [s |-> [Event(s, DEVICE_IO) EXCEPT !.io = n, !.disk[b] = data], res |-> OK]

sfs_clearblock(s, block) == sfs_wblock(s, ZeroBlock, block)

(***************************************************************************)
(* The vnode table.                                                        *)
(***************************************************************************)
VnHas(s, ino) == \E k \in 1 .. Len(s.vn) : s.vn[k].sv_ino = ino

VnIndex(s, ino) ==
  CHOOSE k \in 1 .. Len(s.vn) :
    /\ s.vn[k].sv_ino = ino
    /\ \A j \in 1 .. (k - 1) : s.vn[j].sv_ino # ino

Vn(s, ino) == s.vn[VnIndex(s, ino)]

\* sfs_sync_inode after its sfs_wblock
SyncWritten(w, ix) ==
  IF w.res # OK THEN w
  ELSE [s |-> [w.s EXCEPT !.vn[ix].sv_dirty = FALSE], res |-> OK]

sfs_sync_inode(s, sv) ==
  IF Vn(s, sv).sv_dirty
    THEN SyncWritten(sfs_wblock(s, InodeBlock(Vn(s, sv).sv_i), sv), VnIndex(s, sv))
    ELSE [s |-> s, res |-> OK]

(***************************************************************************)
(* Space allocation.                                                       *)
(***************************************************************************)
\* sfs_balloc after bitmap_alloc gave block b: clear the block
BallocClear(w, b) == [s |-> w.s, res |-> w.res, block |-> b]

\* bitmap_alloc: the lowest clear bit
BitmapAlloc(s) == Min({b \in Blocks : ~s.freemap[b]})

sfs_balloc(s) ==
  IF \A b \in Blocks : s.freemap[b]
    THEN [s |-> Bitlocked(s), res |-> ENOSPC, block |-> 0]
    ELSE BallocClear(sfs_clearblock([Bitlocked(s) EXCEPT !.freemap[BitmapAlloc(s)] = TRUE],
                                    BitmapAlloc(s)),
                     BitmapAlloc(s))

\* sfs_bfree; bitmap_unmark asserts that the bit is set
sfs_bfree(s, diskblock) ==
  IF diskblock \notin Blocks \/ ~s.freemap[diskblock]
    THEN Panic(s, "bitmap_unmark: bit not set")
    ELSE [Bitlocked(s) EXCEPT !.freemap[diskblock] = FALSE]

\* sfs_bused, which looks at the free map under sfs_bitlock (its callers
\* note that with Bitlocked); an out-of-range block panics
sfs_bused(s, diskblock) == diskblock \in Blocks /\ s.freemap[diskblock]

BusedPanics(diskblock) == diskblock \notin Blocks

(***************************************************************************)
(* Block mapping.                                                          *)
(***************************************************************************)
Failed(s, res) == [s |-> s, res |-> res, diskblock |-> 0]

\* the end of sfs_bmap: a nonzero block must be marked used
HandBack(s, block) ==
  IF block # 0 /\ BusedPanics(block)
    THEN Failed(Panic(s, "sfs_bused called on out of range block"), PANIC)
  ELSE IF block # 0 /\ ~sfs_bused(s, block)
    THEN Failed(Panic(s, "Data block marked free"), PANIC)
  ELSE [s |-> IF block # 0 THEN Bitlocked(s) ELSE s, res |-> OK, diskblock |-> block]

\* sfs_bmap, direct block, after sfs_balloc
BmapDirectAlloc(a, ix, fileblock) ==
  IF a.res # OK THEN Failed(a.s, a.res)
  ELSE HandBack([a.s EXCEPT !.vn[ix].sv_i.sfi_direct[fileblock] = a.block,
                            !.vn[ix].sv_dirty = TRUE],
                a.block)

\* sfs_bmap, fileblock < SFS_NDIRECT
BmapDirect(s, sv, fileblock, doalloc) ==
  IF Vn(s, sv).sv_i.sfi_direct[fileblock] = 0 /\ doalloc
    THEN BmapDirectAlloc(sfs_balloc(s), VnIndex(s, sv), fileblock)
    ELSE HandBack(s, Vn(s, sv).sv_i.sfi_direct[fileblock])

\* sfs_bmap after the indirect block was written back
BmapEntryWritten(w, block) ==
  IF w.res # OK THEN Failed(w.s, w.res) ELSE HandBack(w.s, block)

\* sfs_bmap, entry of the indirect block, after sfs_balloc
BmapEntryAlloc(a, idblock, idbuf, idoff) ==
  IF a.res # OK THEN Failed(a.s, a.res)
  ELSE BmapEntryWritten(
         sfs_wblock(a.s, CellBlock([idbuf EXCEPT ![idoff] = a.block]), idblock),
         a.block)

\* a lookup in the indirect block that always takes its first entry
BmapInIndirectFirst(s, idblock, idbuf, idoff, doalloc) ==
  IF idbuf[0] = 0 /\ doalloc
    THEN BmapEntryAlloc(sfs_balloc(s), idblock, idbuf, 0)
    ELSE HandBack(s, idbuf[0])

\* sfs_bmap from "Get the block out of the indirect block buffer" on
BmapInIndirect(s, idblock, idbuf, idoff, doalloc) ==
  IF idbuf[idoff] = 0 /\ doalloc
    THEN BmapEntryAlloc(sfs_balloc(s), idblock, idbuf, idoff)
    ELSE HandBack(s, idbuf[idoff])

\* sfs_bmap with the indirect block buffer filled: by sfs_balloc of a new
\* indirect block (fresh, r.block) or by sfs_rblock of the old one (r.data)
BmapIdBuffer(r, fresh, ix, idblock, idoff, doalloc) ==
  IF r.res # OK THEN Failed(r.s, r.res)
  ELSE IF fresh
    THEN BmapInIndirect([r.s EXCEPT !.vn[ix].sv_i.sfi_indirect = r.block,
                                    !.vn[ix].sv_dirty = TRUE],
                        r.block, ZeroCells, idoff, doalloc)
    ELSE BmapInIndirect(r.s, idblock, r.data.cells, idoff, doalloc)

\* sfs_bmap, fileblock >= SFS_NDIRECT
BmapIndirect(s, sv, fileblock, doalloc) ==
  LET fb      == fileblock - SFS_NDIRECT
      idnum   == fb \div SFS_DBPERIDB
      idoff   == fb % SFS_DBPERIDB
      idblock == Vn(s, sv).sv_i.sfi_indirect
  IN
  IF idnum > 0 THEN Failed(s, EINVAL)
  ELSE IF idblock = 0 /\ ~doalloc THEN [s |-> s, res |-> OK, diskblock |-> 0]
  ELSE BmapIdBuffer(IF idblock = 0 THEN sfs_balloc(s) ELSE sfs_rblock(s, idblock),
                    idblock = 0, VnIndex(s, sv), idblock, idoff, doalloc)

\* a sfs_bmap without the check of idnum: an index past the indirect block
\* comes back into it
BmapWraps(s, sv, fileblock, doalloc) ==
  IF fileblock < SFS_NDIRECT
    THEN BmapDirect(s, sv, fileblock, doalloc)
    ELSE BmapIndirect(s, sv, SFS_NDIRECT + ((fileblock - SFS_NDIRECT) % SFS_DBPERIDB),
                      doalloc)

sfs_bmap(s, sv, fileblock, doalloc) ==
  IF fileblock < SFS_NDIRECT
    THEN BmapDirect(s, sv, fileblock, doalloc)
    ELSE BmapIndirect(s, sv, fileblock, doalloc)

(***************************************************************************)
(* File-level I/O.  A uio is [rw, offset, resid, buf]: buf is the data     *)
(* still to be written (UIO_WRITE) or the data read so far (UIO_READ).     *)
(***************************************************************************)
UIO_READ == "UIO_READ"
UIO_WRITE == "UIO_WRITE"

mk_kuio(buf, len, pos, rw) == [rw |-> rw, offset |-> pos, resid |-> len, buf |-> buf]

IoResult(s, res, uio) == [s |-> s, res |-> res, uio |-> uio]

\* uiomove of len cells from iobuf[skip ..] to the uio (UIO_READ)
UioMoveOut(iobuf, skip, len, uio) ==
  [uio EXCEPT !.offset = @ + len, !.resid = @ - len,
              !.buf = @ \o [k \in 1 .. len |-> iobuf[skip + k - 1]]]

\* uiomove of len cells from the uio (UIO_WRITE): the uio afterwards
UioMoveIn(len, uio) ==
  [uio EXCEPT !.offset = @ + len, !.resid = @ - len,
              !.buf = SubSeq(@, len + 1, Len(@))]

\* uiomove of len cells from the uio (UIO_WRITE): iobuf afterwards
BufAfterMoveIn(iobuf, skip, len, uio) ==
  [c \in 0 .. (SFS_BLOCKSIZE - 1) |->
     IF c >= skip /\ c < skip + len THEN uio.buf[c - skip + 1] ELSE iobuf[c]]

\* sfs_partialio after the write-back of the modified block
PartialWritten(w, uio) == IoResult(w.s, w.res, uio)

\* sfs_partialio from uiomove on
PartialMove(s, uio, iobuf, diskblock, skipstart, len) ==
  IF uio.rw = UIO_READ
    THEN IoResult(s, OK, UioMoveOut(iobuf, skipstart, len, uio))
    ELSE PartialWritten(
           sfs_wblock(s, CellBlock(BufAfterMoveIn(iobuf, skipstart, len, uio)),
                      diskblock),
           UioMoveIn(len, uio))

\* a partial write that does not read the block first
PartialBufferZeroed(r) == ZeroCells

\* sfs_partialio: iobuf holds the block as sfs_rblock read it
PartialBuffer(r) == r.data.cells

\* sfs_partialio after sfs_rblock of the block
PartialRead(r, uio, diskblock, skipstart, len) ==
  IF r.res # OK THEN IoResult(r.s, r.res, uio)
  ELSE PartialMove(r.s, uio, PartialBuffer(r), diskblock, skipstart, len)

\* sfs_partialio after sfs_bmap; an unmapped block is read as zeros
PartialMapped(m, uio, skipstart, len) ==
  IF m.res # OK THEN IoResult(m.s, m.res, uio)
  ELSE IF m.diskblock = 0 /\ uio.rw # UIO_READ
    THEN IoResult(Panic(m.s, "partialio: assert uio_rw == UIO_READ"), PANIC, uio)
  ELSE PartialRead(IF m.diskblock = 0
                     THEN [s |-> m.s, res |-> OK, data |-> ZeroBlock]
                     ELSE sfs_rblock(m.s, m.diskblock),
                   uio, m.diskblock, skipstart, len)

\* a sfs_partialio that asks sfs_bmap to allocate for reads too
PartialioAllocates(s, sv, uio, skipstart, len) ==
  PartialMapped(sfs_bmap(s, sv, uio.offset \div SFS_BLOCKSIZE, TRUE), uio, skipstart, len)

sfs_partialio(s, sv, uio, skipstart, len) ==
  PartialMapped(sfs_bmap(s, sv, uio.offset \div SFS_BLOCKSIZE, uio.rw = UIO_WRITE),
                uio, skipstart, len)

\* sfs_rwblock after the device request
RwDone(d, uio) ==
  IF d.res # OK THEN IoResult(d.s, d.res, uio)
  ELSE IF uio.rw = UIO_READ
    THEN IoResult(d.s, OK, UioMoveOut(d.data.cells, 0, SFS_BLOCKSIZE, uio))
    ELSE IoResult(d.s, OK, UioMoveIn(SFS_BLOCKSIZE, uio))

\* sfs_rwblock: one whole block between the device and the uio
sfs_rwblock(s, uio, diskblock) ==
  RwDone(IF uio.rw = UIO_READ
           THEN sfs_rblock(s, diskblock)
           ELSE sfs_wblock(s, CellBlock(BufAfterMoveIn(ZeroCells, 0, SFS_BLOCKSIZE, uio)),
                           diskblock),
         uio)

\* sfs_blockio after sfs_bmap
BlockMapped(m, uio) ==
  IF m.res # OK THEN IoResult(m.s, m.res, uio)
  ELSE IF m.diskblock = 0
    THEN IF uio.rw # UIO_READ
           THEN IoResult(Panic(m.s, "blockio: assert uio_rw == UIO_READ"), PANIC, uio)
           ELSE IoResult(m.s, OK, UioMoveOut(ZeroCells, 0, SFS_BLOCKSIZE, uio))
  ELSE IF uio.resid < SFS_BLOCKSIZE
    THEN IoResult(Panic(m.s, "blockio: assert uio_resid >= SFS_BLOCKSIZE"), PANIC, uio)
  ELSE sfs_rwblock(m.s, uio, m.diskblock)

sfs_blockio(s, sv, uio) ==
  BlockMapped(sfs_bmap(s, sv, uio.offset \div SFS_BLOCKSIZE, uio.rw = UIO_WRITE), uio)

\* the whole-block loop of sfs_io: n blocks to go, b the last result
RECURSIVE IoBlocks(_, _, _)
IoBlocks(b, sv, n) ==
  IF b.res # OK \/ n = 0 THEN b
  ELSE IoBlocks(sfs_blockio(b.s, sv, b.uio), sv, n - 1)

\* sfs_io: the trailing partial block
IoTail(b, sv) ==
  IF b.res # OK \/ b.uio.resid = 0 THEN b
  ELSE sfs_partialio(b.s, sv, b.uio, 0, b.uio.resid)

\* sfs_io after the leading partial block
IoRest(r, sv) ==
  IF r.res # OK \/ r.uio.resid = 0 THEN r
  ELSE IoTail(IoBlocks(r, sv, r.uio.resid \div SFS_BLOCKSIZE), sv)

\* sfs_io: the leading partial block
IoLead(s, sv, uio) ==
  LET blkoff == uio.offset % SFS_BLOCKSIZE
      len    == IF SFS_BLOCKSIZE - blkoff > uio.resid THEN uio.resid
                ELSE SFS_BLOCKSIZE - blkoff
  IN IF blkoff # 0 THEN sfs_partialio(s, sv, uio, blkoff, len)
     ELSE IoResult(s, OK, uio)

\* a read that is not cut at the end of the file
IoExtraResidNone(uio, size) == 0

\* a sfs_io that never adjusts the file length
IoGrowsNever(uio, size) == FALSE

\* whether sfs_io, at "out:", sets the file size to the uio's offset
IoGrows(uio, size) == uio.rw = UIO_WRITE /\ uio.offset > size

\* sfs_io at "out:": adjust the file length, add the extra residue back
IoOut(r, sv, extraresid) ==
  IoResult(IF IoGrows(r.uio, Vn(r.s, sv).sv_i.sfi_size) /\ r.s.panic = "none"
             THEN [r.s EXCEPT !.vn[VnIndex(r.s, sv)].sv_i.sfi_size = r.uio.offset,
                              !.vn[VnIndex(r.s, sv)].sv_dirty = TRUE]
             ELSE r.s,
           r.res, [r.uio EXCEPT !.resid = @ + extraresid])

\* sfs_io: the part of a read request that lies past the end of the file
IoExtraResid(uio, size) ==
  IF uio.rw = UIO_READ /\ uio.offset + uio.resid > size
    THEN uio.offset + uio.resid - size
    ELSE 0

sfs_io(s, sv, uio) ==
  IF uio.rw = UIO_READ /\ uio.offset >= Vn(s, sv).sv_i.sfi_size
    THEN IoResult(s, OK, uio)
    ELSE IoOut(IoRest(IoLead(s, sv,
                        [uio EXCEPT !.resid =
                           @ - IoExtraResid(uio, Vn(s, sv).sv_i.sfi_size)]),
                      sv),
               sv, IoExtraResid(uio, Vn(s, sv).sv_i.sfi_size))

(***************************************************************************)
(* Truncation.                                                             *)
(***************************************************************************)
\* the direct-block loop of sfs_dotruncate, from index i on
RECURSIVE TruncDirect(_, _, _, _)
TruncDirect(s, ix, blocklen, i) ==
  IF i >= SFS_NDIRECT THEN s
  ELSE TruncDirect(IF i >= blocklen /\ s.vn[ix].sv_i.sfi_direct[i] # 0
                     THEN [sfs_bfree(s, s.vn[ix].sv_i.sfi_direct[i]) EXCEPT
                             !.vn[ix].sv_i.sfi_direct[i] = 0,
                             !.vn[ix].sv_dirty = TRUE]
                     ELSE s,
                   ix, blocklen, i + 1)

\* whether sfs_dotruncate discards entry j of the indirect block
TruncDiscards(blocklen, j, entry) == blocklen < SFS_NDIRECT + j /\ entry # 0

\* the indirect-entry loop of sfs_dotruncate, from entry j on;
\* l is [s, idbuf, iddirty]
RECURSIVE TruncIndirect(_, _, _)
TruncIndirect(l, blocklen, j) ==
  IF j >= SFS_DBPERIDB THEN l
  ELSE TruncIndirect(IF TruncDiscards(blocklen, j, l.idbuf[j])
                       THEN [s |-> sfs_bfree(l.s, l.idbuf[j]),
                             idbuf |-> [l.idbuf EXCEPT ![j] = 0], iddirty |-> TRUE]
                       ELSE l,
                     blocklen, j + 1)

\* the end of sfs_dotruncate: set the file size, mark the inode dirty
TruncFinish(w, ix, len) ==
  IF w.res # OK THEN [s |-> w.s, res |-> w.res]
  ELSE [s |-> [w.s EXCEPT !.vn[ix].sv_i.sfi_size = len, !.vn[ix].sv_dirty = TRUE],
        res |-> OK]

\* sfs_dotruncate after the indirect-entry loop
TruncIdDone(l, ix, idblock, len) ==
  IF \A j \in 0 .. (SFS_DBPERIDB - 1) : l.idbuf[j] = 0
    THEN TruncFinish([s |-> [sfs_bfree(l.s, idblock) EXCEPT
                               !.vn[ix].sv_i.sfi_indirect = 0,
                               !.vn[ix].sv_dirty = TRUE],
                      res |-> OK], ix, len)
  ELSE IF l.iddirty
    THEN TruncFinish(sfs_wblock(l.s, CellBlock(l.idbuf), idblock), ix, len)
  ELSE TruncFinish([s |-> l.s, res |-> OK], ix, len)

\* sfs_dotruncate after sfs_rblock of the indirect block
TruncIdRead(r, ix, idblock, blocklen, len) ==
  IF r.res # OK THEN [s |-> r.s, res |-> r.res]
  ELSE TruncIdDone(TruncIndirect([s |-> r.s, idbuf |-> r.data.cells,
                                  iddirty |-> FALSE], blocklen, 0),
                   ix, idblock, len)

\* a sfs_dotruncate that never looks into the indirect block
TruncKeepsIndirect(blocklen, idblock) == FALSE

\* whether sfs_dotruncate looks into the indirect block
TruncHasIndirect(blocklen, idblock) ==
  blocklen < SFS_NDIRECT + SFS_DBPERIDB - 1 /\ idblock # 0

\* sfs_dotruncate after the direct-block loop
TruncAfterDirect(s1, ix, blocklen, len) ==
  IF TruncHasIndirect(blocklen, s1.vn[ix].sv_i.sfi_indirect)
    THEN TruncIdRead(sfs_rblock(s1, s1.vn[ix].sv_i.sfi_indirect), ix,
                     s1.vn[ix].sv_i.sfi_indirect, blocklen, len)
    ELSE TruncFinish([s |-> s1, res |-> OK], ix, len)

sfs_dotruncate(s, sv, len) ==
  TruncAfterDirect(TruncDirect(s, VnIndex(s, sv), DIVROUNDUP(len, SFS_BLOCKSIZE), 0),
                   VnIndex(s, sv), DIVROUNDUP(len, SFS_BLOCKSIZE), len)

(***************************************************************************)
(* Directory I/O.  A struct sfs_dir [sfd_ino, sfd_name] takes one cell:    *)
(* sfd_ino * NNames + the index of sfd_name in NameTable.                  *)
(***************************************************************************)
NameTable == <<"", ".", "..", "a", "b", "c">>

NNames == Len(NameTable)

NameId(name) == (CHOOSE k \in 1 .. NNames : NameTable[k] = name) - 1

\* sizeof(struct sfs_dir), in cells
SFS_DIRSIZE == 1

EncodeDir(sd) == sd.sfd_ino * NNames + NameId(sd.sfd_name)

DecodeDir(c) == [sfd_ino |-> c \div NNames, sfd_name |-> NameTable[(c % NNames) + 1]]

\* bzero(&sd, sizeof(sd)) with sfd_ino = SFS_NOINO
EmptyDir == [sfd_ino |-> SFS_NOINO, sfd_name |-> ""]

\* sfs_readdir after sfs_io
ReadDirDone(r) ==
  IF r.res # OK THEN [s |-> r.s, res |-> r.res, sd |-> EmptyDir]
  ELSE IF r.uio.resid > 0
    THEN [s |-> Panic(r.s, "readdir: Short entry"), res |-> PANIC, sd |-> EmptyDir]
  ELSE [s |-> r.s, res |-> OK, sd |-> DecodeDir(r.uio.buf[1])]

sfs_readdir(s, sv, slot) ==
  ReadDirDone(sfs_io(s, sv, mk_kuio(<<>>, SFS_DIRSIZE, slot * SFS_DIRSIZE, UIO_READ)))

\* sfs_writedir after sfs_io
WriteDirDone(r) ==
  IF r.res # OK THEN [s |-> r.s, res |-> r.res]
  ELSE IF r.uio.resid > 0
    THEN [s |-> Panic(r.s, "writedir: Short write"), res |-> PANIC]
  ELSE [s |-> r.s, res |-> OK]

sfs_writedir(s, sv, sd, slot) ==
  WriteDirDone(sfs_io(s, sv, mk_kuio(<<EncodeDir(sd)>>, SFS_DIRSIZE,
                                     slot * SFS_DIRSIZE, UIO_WRITE)))

\* sfs_dir_nentries; it asserts that the vnode is a directory
sfs_dir_nentries(s, sv) == Vn(s, sv).sv_i.sfi_size \div SFS_DIRSIZE

NentriesPanics(s, sv) == Vn(s, sv).sv_i.sfi_type # SFS_TYPE_DIR

\* the body of the loop of sfs_dir_findname for slot i, after sfs_readdir;
\* f is [s, res, found, ino, slot, emptyslot]
FindSlot(r, f, name, i) ==
  IF r.res # OK THEN [f EXCEPT !.s = r.s, !.res = r.res]
  ELSE IF r.sd.sfd_ino = SFS_NOINO THEN [f EXCEPT !.s = r.s, !.emptyslot = i]
  ELSE IF r.sd.sfd_name # name THEN [f EXCEPT !.s = r.s]
  ELSE IF f.found
    THEN [f EXCEPT !.s = Panic(r.s, "dir_findname: assert found==0"), !.res = PANIC]
  ELSE [f EXCEPT !.s = r.s, !.found = TRUE, !.slot = i, !.ino = r.sd.sfd_ino]

\* the loop of sfs_dir_findname, from slot i on
RECURSIVE FindLoop(_, _, _, _, _)
FindLoop(f, sv, name, i, nentries) ==
  IF i >= nentries \/ f.res # OK THEN f
  ELSE FindLoop(FindSlot(sfs_readdir(f.s, sv, i), f, name, i), sv, name, i + 1, nentries)

\* the return of sfs_dir_findname
FindDone(f) ==
  IF f.res # OK THEN f ELSE [f EXCEPT !.res = IF f.found THEN OK ELSE ENOENT]

sfs_dir_findname(s, sv, name) ==
  FindDone(FindLoop([s |-> IF NentriesPanics(s, sv)
                             THEN Panic(s, "dir_nentries: assert sfi_type == SFS_TYPE_DIR")
                             ELSE s,
                     res |-> IF NentriesPanics(s, sv) THEN PANIC ELSE OK,
                     found |-> FALSE, ino |-> SFS_NOINO, slot |-> -1, emptyslot |-> -1],
                    sv, name, 0, sfs_dir_nentries(s, sv)))

\* a link that is never refused
DirLinkExistsNever(f) == FALSE

\* sfs_dir_link: the name was found, so the link is refused
DirLinkExists(f) == f.res = OK

\* sfs_dir_link: the name does not fit sfd_name
NameTooLong(name) == \A k \in 1 .. NNames : NameTable[k] # name

\* an entry that goes to the last slot in use when no slot is empty
DirLinkSlotLast(f, sv) ==
  IF f.emptyslot < 0 THEN (Vn(f.s, sv).sv_i.sfi_size \div SFS_DIRSIZE) - 1
  ELSE f.emptyslot

\* sfs_dir_link: the slot the entry goes to
DirLinkSlot(f, sv) ==
  IF f.emptyslot < 0 THEN sfs_dir_nentries(f.s, sv) ELSE f.emptyslot

\* sfs_dir_link after sfs_writedir
DirLinkWritten(w, slot) == [s |-> w.s, res |-> w.res, slot |-> slot]

\* sfs_dir_link after sfs_dir_findname
DirLinkFound(f, sv, name, ino) ==
  IF f.res # OK /\ f.res # ENOENT THEN [s |-> f.s, res |-> f.res, slot |-> -1]
  ELSE IF DirLinkExists(f) THEN [s |-> f.s, res |-> EEXIST, slot |-> -1]
  ELSE IF NameTooLong(name) THEN [s |-> f.s, res |-> ENAMETOOLONG, slot |-> -1]
  ELSE DirLinkWritten(sfs_writedir(f.s, sv, [sfd_ino |-> ino, sfd_name |-> name],
                                   DirLinkSlot(f, sv)),
                      DirLinkSlot(f, sv))

sfs_dir_link(s, sv, name, ino) ==
  DirLinkFound(sfs_dir_findname(s, sv, name), sv, name, ino)

\* an unlink that writes the empty entry after the last slot
DirUnlinkAppends(s, sv, slot) == sfs_writedir(s, sv, EmptyDir, sfs_dir_nentries(s, sv))

sfs_dir_unlink(s, sv, slot) == sfs_writedir(s, sv, EmptyDir, slot)

(***************************************************************************)
(* The vnode cache.                                                        *)
(***************************************************************************)
NewVnode(ino, inode, dirty) ==
  [sv_ino |-> ino, sv_i |-> inode, sv_dirty |-> dirty, vn_refcount |-> 1, sv_lock |-> 0]

\* the search loop of sfs_loadvnode meets a vnode in an unallocated block
\* before it finds ino
LoadSearchPanics(s, ino) ==
  \E k \in 1 .. Len(s.vn) :
    /\ ~sfs_bused(s, s.vn[k].sv_ino)
    /\ \A j \in 1 .. (k - 1) : s.vn[j].sv_ino # ino

\* sfs_loadvnode: the type the new vnode gets
LoadType(inode, forcetype) ==
  IF forcetype # SFS_TYPE_INVAL THEN forcetype ELSE inode.sfi_type

\* sfs_loadvnode after sfs_rblock of the inode
LoadRead(r, ino, forcetype) ==
  IF r.res # OK THEN [s |-> r.s, res |-> r.res]
  ELSE IF forcetype # SFS_TYPE_INVAL /\ r.data.ino.sfi_type # SFS_TYPE_INVAL
    THEN [s |-> Panic(r.s, "loadvnode: assert sfi_type == SFS_TYPE_INVAL"), res |-> PANIC]
  ELSE IF LoadType(r.data.ino, forcetype) \notin {SFS_TYPE_FILE, SFS_TYPE_DIR}
    THEN [s |-> Panic(r.s, "loadvnode: Invalid inode type"), res |-> PANIC]
  ELSE [s |-> [r.s EXCEPT !.vn = Append(@,
                 NewVnode(ino, [r.data.ino EXCEPT !.sfi_type = LoadType(r.data.ino, forcetype)],
                          forcetype # SFS_TYPE_INVAL))],
        res |-> OK]

\* a search of the vnode table that never finds the inode
LoadResidentNever(s, ino) == FALSE

\* sfs_loadvnode: the search loop finds a vnode of ino in the table
LoadResident(s, ino) == VnHas(s, ino)

\* sfs_loadvnode between lock_acquire and lock_release of sfs_vnlock; the
\* search loop and the check of ino look at the free map (sfs_bused)
LoadLocked(s, ino, forcetype) ==
  IF LoadSearchPanics(s, ino)
    THEN [s |-> Panic(s, "Found inode in unallocated block"), res |-> PANIC]
  ELSE IF LoadResident(s, ino)
    THEN IF forcetype # SFS_TYPE_INVAL
           THEN [s |-> Panic(s, "loadvnode: assert forcetype == SFS_TYPE_INVAL"),
                 res |-> PANIC]
           ELSE [s |-> [Bitlocked(s) EXCEPT !.vn[VnIndex(s, ino)].vn_refcount = @ + 1],
                 res |-> OK]
  ELSE IF BusedPanics(ino) \/ ~sfs_bused(s, ino)
    THEN [s |-> Panic(s, "Tried to load inode from unallocated block"), res |-> PANIC]
  ELSE LoadRead(sfs_rblock(Bitlocked(s), ino), ino, forcetype)

\* a sfs_loadvnode that returns with sfs_vnlock in hand
LoadKeepsVnlock(l) == l

\* sfs_loadvnode: lock_release(sfs->sfs_vnlock) before every return
LoadUnlocked(l) == [s |-> lock_release(l.s, SFS_VNLOCK), res |-> l.res]

\* sfs_loadvnode; the vnode handed back is the one of ino
sfs_loadvnode(s, ino, forcetype) ==
  LoadUnlocked(LoadLocked(lock_acquire(s, SFS_VNLOCK), ino, forcetype))

\* sfs_makeobj after sfs_loadvnode
MakeobjLoaded(l, ino) == [s |-> l.s, res |-> l.res, ino |-> ino]

\* sfs_makeobj after sfs_balloc
MakeobjAlloc(a, type) ==
  IF a.res # OK THEN [s |-> a.s, res |-> a.res, ino |-> SFS_NOINO]
  ELSE MakeobjLoaded(sfs_loadvnode(a.s, a.block, type), a.block)

sfs_makeobj(s, type) == MakeobjAlloc(sfs_balloc(s), type)

\* sfs_lookonce after sfs_loadvnode
LookonceLoaded(l, f, sv) ==
  IF l.res # OK THEN [s |-> l.s, res |-> l.res, ino |-> SFS_NOINO, slot |-> f.slot]
  ELSE IF Vn(l.s, f.ino).sv_i.sfi_linkcount = 0
    THEN [s |-> Panic(l.s, "Link count of file found in dir is 0"), res |-> PANIC,
          ino |-> f.ino, slot |-> f.slot]
  ELSE [s |-> Touch(l.s, f.ino, {sv}), res |-> OK, ino |-> f.ino, slot |-> f.slot]

\* sfs_lookonce after sfs_dir_findname
LookonceFound(f, sv) ==
  IF f.res # OK THEN [s |-> f.s, res |-> f.res, ino |-> SFS_NOINO, slot |-> -1]
  ELSE LookonceLoaded(sfs_loadvnode(f.s, f.ino, SFS_TYPE_INVAL), f, sv)

\* sfs_lookonce, called with the lock of the directory sv in hand
sfs_lookonce(s, sv, name) == LookonceFound(sfs_dir_findname(s, sv, name), sv)

\* array_remove of the vnode from sfs_vnodes
VnRemove(s, sv) ==
  [s EXCEPT !.vn = SubSeq(@, 1, VnIndex(s, sv) - 1) \o
                   SubSeq(@, VnIndex(s, sv) + 1, Len(@))]

\* a reclaim that does not look at the reference count again
ReclaimProceedsAlways(refcount) == TRUE

\* sfs_reclaim goes on only if nobody picked the vnode up since VOP_DECREF
ReclaimProceeds(refcount) == refcount = 1

\* a sfs_reclaim that drops the vnode and leaves the inode block allocated
ReclaimSyncedKeepsInode(y, sv) ==
  IF y.res # OK THEN y ELSE [s |-> VnRemove(y.s, sv), res |-> OK]

\* sfs_reclaim after sfs_sync_inode: discard the inode, drop the vnode
ReclaimSynced(y, sv) ==
  IF y.res # OK THEN y
  ELSE [s |-> VnRemove(IF Vn(y.s, sv).sv_i.sfi_linkcount = 0
                         THEN sfs_bfree(y.s, sv) ELSE y.s,
                       sv),
        res |-> OK]

\* sfs_reclaim after sfs_dotruncate
ReclaimTruncated(d, sv) ==
  IF d.res # OK THEN d ELSE ReclaimSynced(sfs_sync_inode(d.s, sv), sv)

\* a sfs_reclaim that finds the vnode picked up and leaves the count as it is
ReclaimBusyKeepsCount(s, sv) == [s |-> s, res |-> EBUSY]

\* sfs_reclaim: somebody picked the vnode up; consume the reference
\* VOP_DECREF left, and return EBUSY (which the log notes, as VOP_DECREF
\* drops it)
ReclaimBusy(s, sv) ==
  [s |-> [Event(s, EBUSY) EXCEPT !.vn[VnIndex(s, sv)].vn_refcount = @ - 1], res |-> EBUSY]

\* sfs_reclaim, with the vnode lock and sfs_vnlock held
ReclaimLocked(s, sv) ==
  IF Vn(s, sv).vn_refcount < 1
    THEN [s |-> Panic(s, "reclaim: assert vn_refcount > 1"), res |-> PANIC]
  ELSE IF ~ReclaimProceeds(Vn(s, sv).vn_refcount)
    THEN ReclaimBusy(s, sv)
    ELSE ReclaimTruncated(IF Vn(s, sv).sv_i.sfi_linkcount = 0
                            THEN sfs_dotruncate(s, sv, 0)
                            ELSE [s |-> s, res |-> OK],
                          sv)

\* sfs_reclaim: lock_release(sfs->sfs_vnlock) before every return
ReclaimUnlocked(r) == [s |-> lock_release(r.s, SFS_VNLOCK), res |-> r.res]

\* sfs_reclaim from lock_acquire(sfs->sfs_vnlock) on, the vnode lock held
ReclaimBody(s, sv) == ReclaimUnlocked(ReclaimLocked(lock_acquire(s, SFS_VNLOCK), sv))

(***************************************************************************)
(* Threads.  A thread record:                                              *)
(*   pc      "idle", or the lock acquisition the thread stands at          *)
(*           ("link1", "remove1", "rename1", "reclaim")                    *)
(*   op, name, name2   the call in progress or last returned               *)
(*   v, slot   the vnode and slot the call works on                        *)
(*   unlock  the vnode locks the call releases once VOP_DECREF returns     *)
(*   res, ret, buf   the result, the vnode handed back, the data read      *)
(*   held    the references the thread got from creat and lookup           *)
(*   nops    the calls made so far                                         *)
(*   pre, lc0, post   for rename: whether the new name was absent when the *)
(*           call looked the old name up, the file's link count then, and  *)
(*           whether the call left what a rename leaves; for mkdir: the    *)
(*           parent's link count at the call (lc0) and whether the call    *)
(*           left what a mkdir leaves (post)                               *)
(*   cres, cino, cfree   for the thread's creat of its own name: the       *)
(*           result, the vnode handed back, the free blocks at the call    *)
(*   log     the log of the thread's last step, with the acquisition of    *)
(*           the vnode lock the thread has come to stand at                *)
(***************************************************************************)
Threads == 1 .. NThreads

Root == SFS_ROOT_LOCATION

Thread0 ==
  [pc |-> "idle", op |-> "none", name |-> "", name2 |-> "", v |-> SFS_NOINO,
   slot |-> -1, unlock |-> <<>>, res |-> "none", ret |-> SFS_NOINO, buf |-> <<>>,
   held |-> <<>>, nops |-> 0, pre |-> FALSE, lc0 |-> 0, post |-> FALSE,
   cres |-> "none", cino |-> SFS_NOINO, cfree |-> 0, log |-> {}]

\* a call starts
Begin(th, op, name, name2) ==
  [th EXCEPT !.op = op, !.name = name, !.name2 = name2, !.nops = @ + 1,
             !.res = "none", !.ret = SFS_NOINO, !.buf = <<>>, !.pre = FALSE, !.lc0 = 0,
             !.post = FALSE]

\* a call returns
Return(th, res, ret) ==
  [th EXCEPT !.pc = "idle", !.res = res, !.ret = ret, !.unlock = <<>>,
             !.v = SFS_NOINO, !.slot = -1]

\* a call returns a vnode, which the thread keeps
ReturnVnode(th, ino) == [Return(th, OK, ino) EXCEPT !.held = Append(@, ino)]

LockFree(s, sv) == VnHas(s, sv) /\ Vn(s, sv).sv_lock = 0

\* lock_acquire of the locks of the vnodes in svs by thread t
RECURSIVE LockAll(_, _, _)
LockAll(s, svs, t) ==
  IF svs = <<>> THEN s
  ELSE LockAll([s EXCEPT !.vn[VnIndex(s, Head(svs))].sv_lock = t], Tail(svs), t)

\* lock_release of the locks of the vnodes in svs; a destroyed vnode has none
RECURSIVE UnlockAll(_, _)
UnlockAll(s, svs) ==
  IF svs = <<>> THEN s
  ELSE UnlockAll(IF VnHas(s, Head(svs))
                   THEN [s EXCEPT !.vn[VnIndex(s, Head(svs))].sv_lock = 0]
                   ELSE s,
                 Tail(svs))

AddLink(s, sv, n) ==
  [s EXCEPT !.vn[VnIndex(s, sv)].sv_i.sfi_linkcount = @ + n,
            !.vn[VnIndex(s, sv)].sv_dirty = TRUE]

DECREF_LOCKED == "VOP_DECREF under sv_lock"

\* the log notes a VOP_DECREF of sv made with the lock of sv in hand
DecrefNoted(s, sv, unlock) ==
  IF \E i \in 1 .. Len(unlock) : unlock[i] = sv THEN Event(s, DECREF_LOCKED) ELSE s

\* VOP_DECREF of sv by thread t, which holds the locks of `unlock` and
\* releases them, returning res, once VOP_DECREF is back.  The last
\* reference makes VOP_DECREF call sfs_reclaim, which starts by acquiring
\* the vnode lock: the thread stands at "reclaim" until it gets it.
VOP_DECREF(s, th, t, sv, unlock, res, ret) ==
  IF Vn(s, sv).vn_refcount < 1
    THEN [s |-> Panic(s, "vnode_decref: assert vn_refcount > 0"), th |-> th]
  ELSE IF Vn(s, sv).vn_refcount > 1
    THEN [s |-> UnlockAll([DecrefNoted(s, sv, unlock) EXCEPT
                             !.vn[VnIndex(s, sv)].vn_refcount = @ - 1], unlock),
          th |-> Return(th, res, ret)]
  ELSE [s |-> LockAll(DecrefNoted(s, sv, unlock), unlock, t),
        th |-> [th EXCEPT !.pc = "reclaim", !.v = sv, !.unlock = unlock,
                          !.res = res, !.ret = ret]]

\* sfs_reclaim once it has the vnode lock, and the rest of the caller
ReclaimDone(r, th) == [s |-> UnlockAll(r.s, th.unlock), th |-> Return(th, th.res, th.ret)]

ReclaimStep(s, th) == ReclaimDone(ReclaimBody(Touch(s, th.v, {th.v}), th.v), th)

\* sfs_creat after sfs_dir_link
CreatLinked(d, th, t, ino) ==
  IF d.res # OK THEN VOP_DECREF(d.s, th, t, ino, <<Root>>, d.res, SFS_NOINO)
  ELSE [s |-> AddLink(Touch(d.s, ino, {Root}), ino, 1), th |-> ReturnVnode(th, ino)]

\* sfs_creat after sfs_makeobj
CreatMade(m, th, t, name) ==
  IF m.res # OK THEN [s |-> m.s, th |-> Return(th, m.res, SFS_NOINO)]
  ELSE CreatLinked(sfs_dir_link(m.s, Root, name, m.ino), th, t, m.ino)

\* sfs_creat: the file exists, load its vnode
CreatLoaded(l, th, ino) ==
  [s |-> l.s,
   th |-> IF l.res # OK THEN Return(th, l.res, SFS_NOINO) ELSE ReturnVnode(th, ino)]

\* a creat that takes no notice of excl: it hands back the file that exists
CreatFoundLoads(f, th, t, name, excl) ==
  IF f.res # OK /\ f.res # ENOENT THEN [s |-> f.s, th |-> Return(th, f.res, SFS_NOINO)]
  ELSE IF f.res = OK THEN CreatLoaded(sfs_loadvnode(f.s, f.ino, SFS_TYPE_INVAL), th, f.ino)
  ELSE CreatMade(sfs_makeobj(f.s, SFS_TYPE_FILE), th, t, name)

\* sfs_creat after sfs_dir_findname
CreatFound(f, th, t, name, excl) ==
  IF f.res # OK /\ f.res # ENOENT THEN [s |-> f.s, th |-> Return(th, f.res, SFS_NOINO)]
  ELSE IF f.res = OK /\ excl THEN [s |-> f.s, th |-> Return(th, EEXIST, SFS_NOINO)]
  ELSE IF f.res = OK THEN CreatLoaded(sfs_loadvnode(f.s, f.ino, SFS_TYPE_INVAL), th, f.ino)
  ELSE CreatMade(sfs_makeobj(f.s, SFS_TYPE_FILE), th, t, name)

\* sfs_creat, from lock_acquire(sv->sv_lock) on
CreatStep(s, th, t, name, excl) ==
  CreatFound(sfs_dir_findname(Touch(s, Root, {Root}), Root, name), th, t, name, excl)

\* sfs_link after sfs_dir_link, the directory lock released
LinkLinked(d, th, file) ==
  [s |-> d.s,
   th |-> IF d.res # OK THEN Return(th, d.res, SFS_NOINO)
          ELSE [th EXCEPT !.pc = "link1", !.v = file]]

\* sfs_link up to lock_acquire(f->sv_lock)
LinkStep(s, th, name, file) == LinkLinked(sfs_dir_link(s, Root, name, file), th, file)

\* sfs_link from lock_acquire(f->sv_lock) on
Link1Step(s, th) ==
  [s |-> AddLink(Touch(s, th.v, {th.v}), th.v, 1), th |-> Return(th, OK, SFS_NOINO)]

\* sfs_remove after sfs_dir_unlink
RemoveUnlinked(u, th, t, victim) ==
  IF u.res = OK
    THEN [s |-> LockAll(u.s, <<Root>>, t), th |-> [th EXCEPT !.pc = "remove1", !.v = victim]]
    ELSE VOP_DECREF(u.s, th, t, victim, <<Root>>, u.res, SFS_NOINO)

\* a remove that returns the error of sfs_lookonce with the directory locked
RemoveLookedKeepsLock(l, th, t) ==
  IF l.res # OK THEN [s |-> LockAll(l.s, <<Root>>, t), th |-> Return(th, l.res, SFS_NOINO)]
  ELSE RemoveUnlinked(sfs_dir_unlink(l.s, Root, l.slot), th, t, l.ino)

\* sfs_remove after sfs_lookonce
RemoveLooked(l, th, t) ==
  IF l.res # OK THEN [s |-> l.s, th |-> Return(th, l.res, SFS_NOINO)]
  ELSE RemoveUnlinked(sfs_dir_unlink(l.s, Root, l.slot), th, t, l.ino)

\* sfs_remove up to lock_acquire(victim->sv_lock)
RemoveStep(s, th, t, name) == RemoveLooked(sfs_lookonce(s, Root, name), th, t)

\* sfs_remove from lock_acquire(victim->sv_lock) on
Remove1Step(s, th, t) ==
  IF Vn(s, th.v).sv_i.sfi_linkcount <= 0
    THEN [s |-> Panic(s, "remove: assert sfi_linkcount > 0"), th |-> th]
    ELSE VOP_DECREF(AddLink(Touch(s, th.v, {Root, th.v}), th.v, -1),
                    th, t, th.v, <<Root>>, OK, SFS_NOINO)

\* the inode of ino: the vnode's copy if it is loaded, else the disk's
InodeOf(s, ino) == IF VnHas(s, ino) THEN Vn(s, ino).sv_i ELSE s.disk[ino].ino

\* the disk block that holds block fb of the file, 0 if none
MappedBlock(s, ino, fb) ==
  IF fb < SFS_NDIRECT THEN InodeOf(s, ino).sfi_direct[fb]
  ELSE IF InodeOf(s, ino).sfi_indirect = 0 THEN 0
  ELSE s.disk[InodeOf(s, ino).sfi_indirect].cells[fb - SFS_NDIRECT]

\* cell k of the file, as it is on the disk
FileCell(s, ino, k) ==
  IF MappedBlock(s, ino, k \div SFS_BLOCKSIZE) = 0 THEN 0
  ELSE s.disk[MappedBlock(s, ino, k \div SFS_BLOCKSIZE)].cells[k % SFS_BLOCKSIZE]

\* the entries of directory dir, as they are on the disk
DirEntries(s, dir) ==
  [slot \in 0 .. ((InodeOf(s, dir).sfi_size \div SFS_DIRSIZE) - 1) |->
     DecodeDir(FileCell(s, dir, slot * SFS_DIRSIZE))]

\* whether an active entry of directory dir has the name
NameIn(s, dir, name) ==
  \E slot \in DOMAIN DirEntries(s, dir) :
    /\ DirEntries(s, dir)[slot].sfd_ino # SFS_NOINO
    /\ DirEntries(s, dir)[slot].sfd_name = name

\* what a rename leaves: the old name gone, the new name on the file, the
\* link count as it was
RenamePost(s, th) ==
  /\ ~NameIn(s, Root, th.name)
  /\ \E slot \in DOMAIN DirEntries(s, Root) :
       DirEntries(s, Root)[slot] = [sfd_ino |-> th.v, sfd_name |-> th.name2]
  /\ InodeOf(s, th.v).sfi_linkcount = th.lc0

\* sfs_rename after sfs_lookonce
RenameLooked(l, th, t) ==
  IF l.res # OK THEN [s |-> l.s, th |-> Return(th, l.res, SFS_NOINO)]
  ELSE [s |-> LockAll(l.s, <<Root>>, t),
        th |-> [th EXCEPT !.pc = "rename1", !.v = l.ino, !.slot = l.slot,
                          !.pre = ~NameIn(l.s, Root, th.name2),
                          !.lc0 = Vn(l.s, l.ino).sv_i.sfi_linkcount]]

\* sfs_rename up to lock_acquire(g1->sv_lock)
RenameStep(s, th, t, n1) == RenameLooked(sfs_lookonce(s, Root, n1), th, t)

\* sfs_rename at puke_harder, after the second sfs_dir_unlink
RenamePukeHarder(u2, th, t, res) ==
  IF u2.res # OK THEN [s |-> Panic(u2.s, "rename: Cannot recover"), th |-> th]
  ELSE VOP_DECREF(AddLink(u2.s, th.v, -1), th, t, th.v, <<th.v, Root>>, res, SFS_NOINO)

\* sfs_rename after sfs_dir_unlink of the old slot
RenameUnlinked(u, th, t, slot2) ==
  IF u.res # OK THEN RenamePukeHarder(sfs_dir_unlink(u.s, Root, slot2), th, t, u.res)
  ELSE IF Vn(u.s, th.v).sv_i.sfi_linkcount <= 0
    THEN [s |-> Panic(u.s, "rename: assert sfi_linkcount > 0"), th |-> th]
  ELSE VOP_DECREF(AddLink(u.s, th.v, -1),
                  [th EXCEPT !.post = RenamePost(AddLink(u.s, th.v, -1), th)],
                  t, th.v, <<th.v, Root>>, OK, SFS_NOINO)

\* sfs_rename after sfs_dir_link of the new name
RenameLinked(d, th, t) ==
  IF d.res # OK
    THEN VOP_DECREF(d.s, th, t, th.v, <<th.v, Root>>, d.res, SFS_NOINO)
    ELSE RenameUnlinked(sfs_dir_unlink(AddLink(Touch(d.s, th.v, {th.v, Root}), th.v, 1),
                                       Root, th.slot),
                        th, t, d.slot)

\* sfs_rename from lock_acquire(g1->sv_lock) on
Rename1Step(s, th, t) ==
  IF Vn(s, th.v).sv_i.sfi_type # SFS_TYPE_FILE
    THEN [s |-> Panic(s, "rename: assert sfi_type == SFS_TYPE_FILE"), th |-> th]
    ELSE RenameLinked(sfs_dir_link(s, Root, th.name2, th.v), th, t)

\* what a mkdir leaves: the new directory with "." and "..", its name in
\* dir, and the two link counts one higher
MkdirPost(s, th, dir, newguy) ==
  /\ s.freemap[newguy]
  /\ InodeOf(s, newguy).sfi_type = SFS_TYPE_DIR
  /\ DirEntries(s, newguy)
       = [slot \in 0 .. 1 |-> IF slot = 0 THEN [sfd_ino |-> newguy, sfd_name |-> "."]
                              ELSE [sfd_ino |-> dir, sfd_name |-> ".."]]
  /\ \E slot \in DOMAIN DirEntries(s, dir) :
       DirEntries(s, dir)[slot] = [sfd_ino |-> newguy, sfd_name |-> th.name]
  /\ InodeOf(s, newguy).sfi_linkcount = 1
  /\ InodeOf(s, dir).sfi_linkcount = th.lc0 + 1

\* a mkdir that forgets the link count of the parent
MkdirCountedChild(s, dir, newguy) == AddLink(s, newguy, 1)

\* sfs_mkdir: the link counts of the new directory and of its parent
MkdirCounted(s, dir, newguy) ==
  AddLink(Touch(AddLink(Touch(s, newguy, {newguy, dir}), newguy, 1), dir, {newguy, dir}),
          dir, 1)

\* sfs_mkdir after the last sfs_dir_link
MkdirLinked(d, th, t, dir, newguy) ==
  IF d.res # OK
    THEN VOP_DECREF(d.s, th, t, newguy, <<newguy, dir>>, d.res, SFS_NOINO)
    ELSE VOP_DECREF(MkdirCounted(d.s, dir, newguy),
                    [th EXCEPT !.post = MkdirPost(MkdirCounted(d.s, dir, newguy),
                                                  th, dir, newguy)],
                    t, newguy, <<>>, OK, SFS_NOINO)

\* sfs_mkdir: one sfs_dir_link after another; the first that fails ends them
MkdirLink(d, dir, name, ino) ==
  IF d.res # OK THEN d ELSE sfs_dir_link(d.s, dir, name, ino)

\* sfs_mkdir after sfs_makeobj, from lock_acquire(newguy->sv_lock) on
MkdirMade(m, th, t, dir, name) ==
  IF m.res # OK THEN [s |-> m.s, th |-> Return(th, m.res, SFS_NOINO)]
  ELSE MkdirLinked(MkdirLink(MkdirLink(sfs_dir_link(Event(m.s, SV_LOCK), m.ino, ".", m.ino),
                                       m.ino, "..", dir),
                             dir, name, m.ino),
                   th, t, dir, m.ino)

\* sfs_mkdir after sfs_dir_findname
MkdirFound(f, th, t, dir, name) ==
  IF f.res = OK THEN [s |-> f.s, th |-> Return(th, EEXIST, SFS_NOINO)]
  ELSE MkdirMade(sfs_makeobj(f.s, SFS_TYPE_DIR), th, t, dir, name)

\* sfs_mkdir of name in the directory dir
MkdirStep(s, th, t, dir, name) ==
  IF Vn(s, dir).sv_i.sfi_type # SFS_TYPE_DIR
    THEN [s |-> s, th |-> Return(th, ENOTDIR, SFS_NOINO)]
    ELSE MkdirFound(sfs_dir_findname(s, dir, name),
                    [th EXCEPT !.lc0 = Vn(s, dir).sv_i.sfi_linkcount], t, dir, name)

\* sfs_rmdir
RmdirStep(s, th, name) == [s |-> s, th |-> Return(th, EUNIMP, SFS_NOINO)]

\* sfs_lookup after sfs_lookonce
LookupLooked(l, th) ==
  [s |-> l.s,
   th |-> IF l.res # OK THEN Return(th, l.res, SFS_NOINO) ELSE ReturnVnode(th, l.ino)]

\* sfs_lookup
LookupStep(s, th, name) ==
  IF Vn(s, Root).sv_i.sfi_type # SFS_TYPE_DIR
    THEN [s |-> s, th |-> Return(th, ENOTDIR, SFS_NOINO)]
    ELSE LookupLooked(sfs_lookonce(s, Root, name), th)

\* a path as the string the calls are handed: the components, "/" between
RECURSIVE PathString(_)
PathString(path) ==
  IF Len(path) = 1 THEN path[1] ELSE path[1] \o "/" \o PathString(Tail(path))

\* a sfs_lookparent that hands the directory back without counting the reference
LookparentStepUncounted(s, th, path) ==
  IF Vn(s, Root).sv_i.sfi_type # SFS_TYPE_DIR
    THEN [s |-> s, th |-> Return(th, ENOTDIR, SFS_NOINO)]
    ELSE [s |-> s, th |-> [ReturnVnode(th, Root) EXCEPT !.buf = <<PathString(path)>>]]

\* sfs_lookparent: the directory it was called on, and the whole path
LookparentStep(s, th, path) ==
  IF Vn(s, Root).sv_i.sfi_type # SFS_TYPE_DIR
    THEN [s |-> s, th |-> Return(th, ENOTDIR, SFS_NOINO)]
    ELSE [s |-> [s EXCEPT !.vn[VnIndex(s, Root)].vn_refcount = @ + 1],
          th |-> [ReturnVnode(th, Root) EXCEPT !.buf = <<PathString(path)>>]]

\* sfs_read and sfs_write after sfs_io
IoReturned(r, th) ==
  [s |-> r.s, uio |-> r.uio,
   th |-> [Return(th, r.res, SFS_NOINO) EXCEPT
             !.buf = IF r.uio.rw = UIO_READ THEN r.uio.buf ELSE <<>>]]

\* sfs_write
WriteStep(s, th, file, buf, pos) ==
  IoReturned(sfs_io(Touch(s, file, {file}), file, mk_kuio(buf, Len(buf), pos, UIO_WRITE)),
             th)

\* sfs_read
ReadStep(s, th, file, len, pos) ==
  IoReturned(sfs_io(Touch(s, file, {file}), file, mk_kuio(<<>>, len, pos, UIO_READ)), th)

\* sfs_truncate after sfs_dotruncate
TruncateReturned(d, th) == [s |-> d.s, th |-> Return(th, d.res, SFS_NOINO)]

\* sfs_truncate
TruncateStep(s, th, file, len) ==
  TruncateReturned(sfs_dotruncate(Touch(s, file, {file}), file, len), th)

(***************************************************************************)
(* The state.                                                              *)
(*   freemap, disk, vn, panic   the filesystem, as above                   *)
(*   thr     the threads                                                   *)
(*   faults  the device errors still to come                               *)
(*   ideal   for the file-I/O specification: what the file should hold,    *)
(*           and the last call on it                                       *)
(* and the cache simulator of a1/cache.c, a program of its own:            *)
(*   cache, ftable, slot_count   its globals                               *)
(*   ftable_locks, cache_locks   its mutexes: the owner, 0 if unlocked     *)
(*   proc    its threads, each calling read_block                          *)
(***************************************************************************)
VARIABLES freemap, disk, vn, panic, thr, faults, ideal,
          cache, ftable, ftable_locks, cache_locks, slot_count, proc

fsvars == <<freemap, disk, vn, panic, thr, faults, ideal>>

simvars == <<cache, ftable, ftable_locks, cache_locks, slot_count, proc>>

vars == <<fsvars, simvars>>

\* cache slots (NUM_SLOTS of common.h)
NUM_SLOTS == 2
\* files of the simulator (NUM_FILES of common.h)
NUM_FILES == 2
\* largest file size build_file_table draws, in blocks
MaxFileSize == 2
\* threads of the simulator
NProcs == 2
\* calls of read_block one thread makes in one run
MaxCalls == 2

Slots == 0 .. (NUM_SLOTS - 1)

Files == 0 .. (NUM_FILES - 1)

Pids == 1 .. NProcs

\* a thread of the simulator: where it stands ("idle": in no call), the
\* arguments of its call, the slot it chose, what the call returned, and
\* whether the block was in a cache slot when the call looked
Proc0 ==
  [pc |-> "idle", file_id |-> -1, block_num |-> -1, slot |-> -1, ret |-> -1,
   cached |-> FALSE, calls |-> 0]

\* the simulator after init_cache and build_file_table, which drew the
\* sizes; globals start zeroed
SimInit(size) ==
  /\ cache = [i \in Slots |-> [file_id |-> -1, block_num |-> 0, dirty |-> 0]]
  /\ ftable = [i \in Files |-> [size |-> size[i], head |-> <<>>]]
  /\ ftable_locks = [i \in Files |-> 0]
  /\ cache_locks = [i \in Slots |-> 0]
  /\ slot_count = NUM_SLOTS
  /\ proc = [p \in Pids |-> Proc0]

\* the simulator at rest beside the filesystem
SimIdle == SimInit([i \in Files |-> 1])

\* a device error hits one of the first MaxFailAt requests of a step
MaxFailAt == 4

\* the filesystem as a step finds it; request number f fails (0: none)
S(f) == [freemap |-> freemap, disk |-> disk, vn |-> vn, panic |-> panic,
         io |-> 0, failAt |-> f, lk |-> {}, log |-> {}]

FailChoices == IF faults > 0 THEN 0 .. MaxFailAt ELSE {0}

\* the log of the step that came to r: a thread that has come to stand at a
\* lock_acquire of a vnode lock makes it with the locks it has in hand, and
\* so does a thread that returns from its call
StepLog(r) ==
  IF r.th.pc = "idle" THEN Event(r.s, RETURN).log ELSE Event(r.s, SV_LOCK).log

\* thread t takes the step whose outcome is r = [s, th]; a panic stops the system
Apply(t, f, r) ==
  /\ f = 0 \/ r.s.io >= f
  /\ IF r.s.panic # "none"
       THEN /\ panic' = r.s.panic
            /\ UNCHANGED <<freemap, disk, vn, thr, faults, simvars>>
       ELSE /\ freemap' = r.s.freemap
            /\ disk' = r.s.disk
            /\ vn' = r.s.vn
            /\ thr' = [thr EXCEPT ![t] = [r.th EXCEPT !.log = StepLog(r)]]
            /\ faults' = IF f = 0 THEN faults ELSE faults - 1
            /\ UNCHANGED <<panic, simvars>>

\* the disk mksfs leaves: superblock, root inode, free map, and the root
\* directory's first block with "." and ".."
RootData == 3

RootInode ==
  [sfi_size |-> 2 * SFS_DIRSIZE, sfi_type |-> SFS_TYPE_DIR, sfi_linkcount |-> 2,
   sfi_direct |-> [i \in 0 .. (SFS_NDIRECT - 1) |-> IF i = 0 THEN RootData ELSE 0],
   sfi_indirect |-> 0]

RootCells ==
  [c \in 0 .. (SFS_BLOCKSIZE - 1) |->
     IF c = 0 THEN EncodeDir([sfd_ino |-> Root, sfd_name |-> "."])
     ELSE IF c = 1 THEN EncodeDir([sfd_ino |-> Root, sfd_name |-> ".."])
     ELSE 0]

Disk0 ==
  [b \in Blocks |->
     IF b = Root THEN InodeBlock(RootInode)
     ELSE IF b = RootData THEN CellBlock(RootCells)
     ELSE ZeroBlock]

IdealNone ==
  [ok |-> TRUE, cells |-> <<>>, op |-> "none", pos |-> 0, data |-> <<>>, len |-> 0,
   res |-> "none", premap |-> <<>>]

\* the mounted filesystem: sfs_getroot has loaded the root vnode
S0 ==
  [freemap |-> [b \in Blocks |-> b <= RootData], disk |-> Disk0,
   vn |-> <<NewVnode(Root, RootInode, FALSE)>>, panic |-> "none",
   io |-> 0, failAt |-> 0, lk |-> {}, log |-> {}]

Init ==
  /\ freemap = S0.freemap
  /\ disk = S0.disk
  /\ vn = S0.vn
  /\ panic = "none"
  /\ thr = [t \in Threads |-> Thread0]
  /\ faults = 0
  /\ ideal = IdealNone
  /\ SimIdle

OpNames == {"a", "b"}

\* thread t may make another call
Idle(t) == panic = "none" /\ thr[t].pc = "idle" /\ thr[t].nops < MaxOps

\* thread t stands at the lock acquisition pc
At(t, pc) == panic = "none" /\ thr[t].pc = pc

Free(sv) == LockFree(S(0), sv)

Creat(t) ==
  /\ Idle(t) /\ Free(Root) /\ Len(thr[t].held) < MaxHeld
  /\ \E name \in OpNames, excl \in BOOLEAN, f \in FailChoices :
       Apply(t, f, CreatStep(S(f), Begin(thr[t], "creat", name, ""), t, name, excl))
  /\ UNCHANGED ideal

Link(t) ==
  /\ Idle(t) /\ Free(Root)
  /\ \E name \in OpNames, i \in 1 .. Len(thr[t].held), f \in FailChoices :
       Apply(t, f, LinkStep(S(f), Begin(thr[t], "link", name, ""), name, thr[t].held[i]))
  /\ UNCHANGED ideal

Link1(t) ==
  /\ At(t, "link1") /\ Free(thr[t].v)
  /\ Apply(t, 0, Link1Step(S(0), thr[t]))
  /\ UNCHANGED ideal

Remove(t) ==
  /\ Idle(t) /\ Free(Root)
  /\ \E name \in OpNames, f \in FailChoices :
       Apply(t, f, RemoveStep(S(f), Begin(thr[t], "remove", name, ""), t, name))
  /\ UNCHANGED ideal

Remove1(t) ==
  /\ At(t, "remove1") /\ Free(thr[t].v)
  /\ Apply(t, 0, Remove1Step(S(0), thr[t], t))
  /\ UNCHANGED ideal

Rename(t) ==
  /\ Idle(t) /\ Free(Root)
  /\ \E n1 \in OpNames, n2 \in OpNames, f \in FailChoices :
       Apply(t, f, RenameStep(S(f), Begin(thr[t], "rename", n1, n2), t, n1))
  /\ UNCHANGED ideal

Rename1(t) ==
  /\ At(t, "rename1") /\ Free(thr[t].v)
  /\ \E f \in FailChoices : Apply(t, f, Rename1Step(S(f), thr[t], t))
  /\ UNCHANGED ideal

Mkdir(t) ==
  /\ Idle(t) /\ Free(Root)
  /\ \E name \in OpNames, f \in FailChoices :
       Apply(t, f, MkdirStep(S(f), Begin(thr[t], "mkdir", name, ""), t, Root, name))
  /\ UNCHANGED ideal

Lookup(t) ==
  /\ Idle(t) /\ Free(Root) /\ Len(thr[t].held) < MaxHeld
  /\ \E name \in OpNames, f \in FailChoices :
       Apply(t, f, LookupStep(S(f), Begin(thr[t], "lookup", name, ""), name))
  /\ UNCHANGED ideal

\* the thread gives up reference i: VOP_DECREF
Release(t) ==
  /\ Idle(t)
  /\ \E i \in 1 .. Len(thr[t].held) :
       Apply(t, 0,
             VOP_DECREF(S(0),
                        [Begin(thr[t], "release", "", "") EXCEPT
                           !.held = SubSeq(@, 1, i - 1) \o SubSeq(@, i + 1, Len(@))],
                        t, thr[t].held[i], <<>>, OK, SFS_NOINO))
  /\ UNCHANGED ideal

Reclaim(t) ==
  /\ At(t, "reclaim") /\ Free(thr[t].v)
  /\ \E f \in FailChoices : Apply(t, f, ReclaimStep(S(f), thr[t]))
  /\ UNCHANGED ideal

IsFile(sv) == Vn(S(0), sv).sv_i.sfi_type = SFS_TYPE_FILE

\* where the threads of Spec write: a direct and an indirect block
WritePositions == {0, SFS_NDIRECT * SFS_BLOCKSIZE}

Write(t) ==
  /\ Idle(t)
  /\ \E i \in 1 .. Len(thr[t].held), pos \in WritePositions, f \in FailChoices :
       /\ Free(thr[t].held[i]) /\ IsFile(thr[t].held[i])
       /\ Apply(t, f, WriteStep(S(f), Begin(thr[t], "write", "", ""),
                                thr[t].held[i], <<t>>, pos))
  /\ UNCHANGED ideal

Read(t) ==
  /\ Idle(t)
  /\ \E i \in 1 .. Len(thr[t].held), pos \in WritePositions, f \in FailChoices :
       /\ Free(thr[t].held[i]) /\ IsFile(thr[t].held[i])
       /\ Apply(t, f, ReadStep(S(f), Begin(thr[t], "read", "", ""),
                               thr[t].held[i], 1, pos))
  /\ UNCHANGED ideal

Truncate(t) ==
  /\ Idle(t)
  /\ \E i \in 1 .. Len(thr[t].held), f \in FailChoices :
       /\ Free(thr[t].held[i]) /\ IsFile(thr[t].held[i])
       /\ Apply(t, f, TruncateStep(S(f), Begin(thr[t], "truncate", "", ""),
                                   thr[t].held[i], 0))
  /\ UNCHANGED ideal

Next ==
  \E t \in Threads :
    \/ Creat(t) \/ Link(t) \/ Link1(t) \/ Remove(t) \/ Remove1(t)
    \/ Rename(t) \/ Rename1(t) \/ Mkdir(t) \/ Lookup(t) \/ Release(t)
    \/ Reclaim(t) \/ Write(t) \/ Read(t) \/ Truncate(t)

Spec == Init /\ [][Next]_vars

(***************************************************************************)
(* Directories: the threads make directories in the root directory and in  *)
(* the directories they have looked up, look paths of one and two          *)
(* components up, and remove directories.                                  *)
(***************************************************************************)
\* the paths of one and of two components
Paths == {<<n>> : n \in OpNames} \cup {<<n1, n2>> : n1 \in OpNames, n2 \in OpNames}

MkdirIn(t) ==
  /\ Idle(t)
  /\ \E i \in 1 .. Len(thr[t].held), name \in OpNames, f \in FailChoices :
       /\ Free(thr[t].held[i])
       /\ Apply(t, f, MkdirStep(S(f), Begin(thr[t], "mkdir", name, ""), t,
                                thr[t].held[i], name))
  /\ UNCHANGED ideal

Rmdir(t) ==
  /\ Idle(t)
  /\ \E name \in OpNames :
       Apply(t, 0, RmdirStep(S(0), Begin(thr[t], "rmdir", name, ""), name))
  /\ UNCHANGED ideal

LookupPath(t) ==
  /\ Idle(t) /\ Free(Root) /\ Len(thr[t].held) < MaxHeld
  /\ \E path \in Paths, f \in FailChoices :
       /\ Len(path) > 1
       /\ Apply(t, f, LookupStep(S(f), Begin(thr[t], "lookup", PathString(path), ""),
                                 PathString(path)))
  /\ UNCHANGED ideal

Lookparent(t) ==
  /\ Idle(t) /\ Len(thr[t].held) < MaxHeld
  /\ \E path \in Paths :
       Apply(t, 0, LookparentStep(S(0), Begin(thr[t], "lookparent", PathString(path), ""),
                                  path))
  /\ UNCHANGED ideal

NextDir ==
  \E t \in Threads :
    \/ Creat(t) \/ Mkdir(t) \/ MkdirIn(t) \/ Rmdir(t) \/ Lookup(t) \/ LookupPath(t)
    \/ Lookparent(t) \/ Release(t) \/ Reclaim(t)

SpecDir == Init /\ [][NextDir]_vars

(***************************************************************************)
(* Small volumes: the volume has up to MaxSmall blocks beyond those mksfs  *)
(* takes; the free map marks the blocks past the end of the volume used.   *)
(***************************************************************************)
MaxSmall == 3

InitSmall ==
  /\ \E n \in 0 .. MaxSmall :
       freemap = [b \in Blocks |-> b <= RootData \/ b > RootData + n]
  /\ disk = S0.disk
  /\ vn = S0.vn
  /\ panic = "none"
  /\ thr = [t \in Threads |-> Thread0]
  /\ faults = 0
  /\ ideal = IdealNone
  /\ SimIdle

NextSmall ==
  \E t \in Threads :
    \/ Creat(t) \/ Link(t) \/ Link1(t) \/ Remove(t) \/ Remove1(t) \/ Mkdir(t)
    \/ Release(t) \/ Reclaim(t)

SpecSmall == InitSmall /\ [][NextSmall]_vars

(***************************************************************************)
(* Concurrent creation: every thread creates a file of its own name, and   *)
(* goes on to use it.                                                      *)
(***************************************************************************)
OwnName(t) == NameTable[3 + t]

FreeBlocks == Cardinality({b \in Blocks : ~freemap[b]})

\* the outcome of the thread's creat of its own name, noted in the thread
CreatedOwn(r, nfree) ==
  [s |-> r.s,
   th |-> [r.th EXCEPT !.cres = r.th.res, !.cino = r.th.ret, !.cfree = nfree]]

CreatOwn(t) ==
  /\ Idle(t) /\ Free(Root) /\ Len(thr[t].held) < MaxHeld
  /\ thr[t].cres = "none"
  /\ \E excl \in BOOLEAN, f \in FailChoices :
       Apply(t, f, CreatedOwn(CreatStep(S(f), Begin(thr[t], "creat", OwnName(t), ""),
                                        t, OwnName(t), excl),
                              FreeBlocks))
  /\ UNCHANGED ideal

NextCreat ==
  \E t \in Threads :
    \/ CreatOwn(t) \/ Lookup(t) \/ Write(t) \/ Truncate(t) \/ Release(t) \/ Reclaim(t)

SpecCreat == Init /\ [][NextCreat]_vars

(***************************************************************************)
(* File I/O: one thread writes and truncates one file.  ideal holds        *)
(* what the file should contain: a cell per offset below the size, with    *)
(* the value last written and whether the cell was written since the file  *)
(* last ended at or below it.                                              *)
(***************************************************************************)
IOThread == CHOOSE t \in Threads : \A u \in Threads : t <= u

\* the file: thread IOThread has created it and holds it
Created == CreatStep(S0, Begin(Thread0, "creat", "a", ""), IOThread, "a", TRUE)

File == Created.th.ret

InitIO ==
  /\ freemap = Created.s.freemap
  /\ disk = Created.s.disk
  /\ vn = Created.s.vn
  /\ panic = "none"
  /\ thr = [t \in Threads |-> IF t = IOThread THEN [Created.th EXCEPT !.nops = 0]
                              ELSE Thread0]
  /\ faults = 0
  /\ ideal = IdealNone
  /\ SimIdle

MaxFileBlocks == SFS_NDIRECT + SFS_DBPERIDB

MaxFileCells == MaxFileBlocks * SFS_BLOCKSIZE

BlockMap == [fb \in 0 .. (MaxFileBlocks - 1) |-> MappedBlock(S(0), File, fb)]

ZeroCell == [val |-> 0, wr |-> FALSE]

\* the ideal file after writing data at pos
WriteCells(cells, pos, data) ==
  [k \in 1 .. (IF pos + Len(data) > Len(cells) THEN pos + Len(data) ELSE Len(cells)) |->
     IF k > pos /\ k <= pos + Len(data) THEN [val |-> data[k - pos], wr |-> TRUE]
     ELSE IF k <= Len(cells) THEN cells[k]
     ELSE ZeroCell]

\* the ideal file after truncating to len
TruncateCells(cells, len) ==
  [k \in 1 .. len |-> IF k <= Len(cells) THEN cells[k] ELSE ZeroCell]

Note(op, pos, data, len, res, cells) ==
  [ok |-> ideal.ok /\ res = OK, cells |-> IF res = OK THEN cells ELSE ideal.cells,
   op |-> op, pos |-> pos, data |-> data, len |-> len, res |-> res,
   premap |-> BlockMap]

IOIdle(t) == t = IOThread /\ panic = "none" /\ thr[t].pc = "idle" /\ thr[t].nops < MaxIOOps

\* the data of the thread's next write: len cells of the call's number
WriteData(t, len) == [k \in 1 .. len |-> thr[t].nops + 1]

FileWrite(t) ==
  /\ IOIdle(t)
  /\ \E pos \in 0 .. (MaxFileCells - 1), len \in 1 .. MaxLen, f \in FailChoices :
       /\ Apply(t, f, WriteStep(S(f), Begin(thr[t], "write", "", ""), File,
                                WriteData(t, len), pos))
       /\ ideal' = IF panic' # "none" THEN ideal
                   ELSE Note("write", pos, WriteData(t, len), len, thr'[t].res,
                             WriteCells(ideal.cells, pos, WriteData(t, len)))

FileTruncate(t) ==
  /\ IOIdle(t)
  /\ \E len \in 0 .. MaxFileCells, f \in FailChoices :
       /\ Apply(t, f, TruncateStep(S(f), Begin(thr[t], "truncate", "", ""), File, len))
       /\ ideal' = IF panic' # "none" THEN ideal
                   ELSE Note("truncate", 0, <<>>, len, thr'[t].res,
                             TruncateCells(ideal.cells, len))

NextIO == \E t \in Threads : FileWrite(t) \/ FileTruncate(t)

SpecIO == InitIO /\ [][NextIO]_vars

\* the file is empty: no size, no block
FileEmpty ==
  /\ InodeOf(S(0), File).sfi_size = 0
  /\ InodeOf(S(0), File).sfi_indirect = 0
  /\ \A fb \in 0 .. (MaxFileBlocks - 1) : BlockMap[fb] = 0

\* a write at offset 0 to the empty file, of up to as many cells as a file holds
FillWrite(t) ==
  /\ IOIdle(t) /\ FileEmpty
  /\ \E len \in 1 .. MaxFileCells, f \in FailChoices :
       /\ Apply(t, f, WriteStep(S(f), Begin(thr[t], "write", "", ""), File,
                                WriteData(t, len), 0))
       /\ ideal' = IF panic' # "none" THEN ideal
                   ELSE Note("fill", 0, WriteData(t, len), len, thr'[t].res,
                             WriteCells(ideal.cells, 0, WriteData(t, len)))

NextFill == \E t \in Threads : FillWrite(t) \/ FileTruncate(t)

SpecFill == InitIO /\ [][NextFill]_vars

(***************************************************************************)
(* A file in use is unlinked: one thread holds the file it created, the    *)
(* threads write to it, link it, remove its names, look it up and give     *)
(* their references up, so that it is reclaimed with and without links.    *)
(***************************************************************************)
NextUnlink ==
  \E t \in Threads :
    \/ Write(t) \/ Link(t) \/ Link1(t) \/ Remove(t) \/ Remove1(t) \/ Lookup(t)
    \/ Release(t) \/ Reclaim(t)

SpecUnlink == InitIO /\ [][NextUnlink]_vars

\* the same with one device error
InitIOFault ==
  /\ freemap = Created.s.freemap
  /\ disk = Created.s.disk
  /\ vn = Created.s.vn
  /\ panic = "none"
  /\ thr = [t \in Threads |-> IF t = IOThread THEN [Created.th EXCEPT !.nops = 0]
                              ELSE Thread0]
  /\ faults = 1
  /\ ideal = IdealNone
  /\ SimIdle

SpecIOFault == InitIOFault /\ [][NextIO]_vars

(***************************************************************************)
(* What the properties below read off the state.                           *)
(***************************************************************************)
Now == S(0)

\* the inodes: the loaded vnodes, and the inodes on the disk in used blocks
Inodes ==
  {b \in Blocks : VnHas(Now, b) \/ (freemap[b] /\ disk[b].ino.sfi_type # SFS_TYPE_INVAL)}

Dirs == {b \in Inodes : InodeOf(Now, b).sfi_type = SFS_TYPE_DIR}

Used(b) == b \in Blocks /\ freemap[b]

\* the directory entries, over all directories, whose inode number is ino
EntriesOf(ino) ==
  {e \in UNION {{<<d, slot>> : slot \in DOMAIN DirEntries(Now, d)} : d \in Dirs} :
     DirEntries(Now, e[1])[e[2]].sfd_ino = ino}

Quiescent == panic = "none" /\ \A t \in Threads : thr[t].pc = "idle"

LockPcs == {"link1", "remove1", "rename1", "reclaim"}

\* thread t stands at the acquisition of a vnode lock that thread u holds
WaitsFor(t, u) ==
  /\ thr[t].pc \in LockPcs
  /\ VnHas(Now, thr[t].v)
  /\ Vn(Now, thr[t].v).sv_lock = u

\* the references thread t holds to vnode ino: those it was handed, and the
\* one the call it is in got from sfs_lookonce or is about to give up
RefsOf(t, ino) ==
  Cardinality({i \in 1 .. Len(thr[t].held) : thr[t].held[i] = ino})
  + (IF thr[t].pc \in {"remove1", "rename1", "reclaim"} /\ thr[t].v = ino THEN 1 ELSE 0)

RECURSIVE SumRefs(_, _)
SumRefs(ts, ino) ==
  IF ts = {} THEN 0
  ELSE LET t == CHOOSE x \in ts : TRUE IN RefsOf(t, ino) + SumRefs(ts \ {t}, ino)

\* a read of len cells at pos, as sfs_read does it
ReadBack(pos, len) == sfs_io(Now, File, mk_kuio(<<>>, len, pos, UIO_READ))

(***************************************************************************)
(* C1.  In every reachable state, whatever creat, link, remove, rename and *)
(* mkdir calls the threads have interleaved, no two active slots of a      *)
(* directory hold the same name, and sfs_dir_findname's assert(found==0)   *)
(* has not failed.                                                         *)
(***************************************************************************)
UniqueNames ==
  /\ panic # "dir_findname: assert found==0"
  /\ \A d \in Dirs : \A i, j \in DOMAIN DirEntries(Now, d) :
       (/\ i # j
        /\ DirEntries(Now, d)[i].sfd_ino # SFS_NOINO
        /\ DirEntries(Now, d)[j].sfd_ino # SFS_NOINO)
       => DirEntries(Now, d)[i].sfd_name # DirEntries(Now, d)[j].sfd_name

\* a link or a rename to a name the directory already holds was refused
UniqueNamesWitness ==
  \E t \in Threads :
    /\ thr[t].op \in {"link", "rename"} /\ thr[t].pc = "idle" /\ thr[t].res = EEXIST
    /\ NameIn(Now, Root, "a") /\ NameIn(Now, Root, "b")

(***************************************************************************)
(* C2.  In every reachable state, also after a call returned ENOSPC or a   *)
(* device error, every nonzero direct pointer, indirect pointer and entry  *)
(* of an indirect block of every inode names a block the free map marks    *)
(* used, and sfs_bmap's "marked free" panic has not happened.              *)
(***************************************************************************)
PointersNameUsedBlocks ==
  /\ panic # "Data block marked free"
  /\ \A ino \in Inodes :
       /\ InodeOf(Now, ino).sfi_indirect # 0 => Used(InodeOf(Now, ino).sfi_indirect)
       /\ \A fb \in 0 .. (MaxFileBlocks - 1) :
            MappedBlock(Now, ino, fb) # 0 => Used(MappedBlock(Now, ino, fb))

(***************************************************************************)
(* C3.  After a successful truncate to len, with blocklen the number of    *)
(* blocks len takes: every file block from blocklen on is unmapped and the *)
(* block it named is free, every file block below blocklen keeps its       *)
(* mapping, and as many data blocks were freed as were mapped from         *)
(* blocklen on.                                                            *)
(***************************************************************************)
TruncateFrees ==
  (ideal.op = "truncate" /\ ideal.res = OK) =>
    LET blocklen == DIVROUNDUP(ideal.len, SFS_BLOCKSIZE)
        fbs == 0 .. (MaxFileBlocks - 1)
    IN /\ \A fb \in fbs :
            IF fb >= blocklen
              THEN /\ BlockMap[fb] = 0
                   /\ ideal.premap[fb] # 0 => ~Used(ideal.premap[fb])
              ELSE BlockMap[fb] = ideal.premap[fb]
       /\ Cardinality({fb \in fbs : ideal.premap[fb] # 0 /\ ~Used(ideal.premap[fb])})
          = Cardinality({fb \in fbs : fb >= blocklen /\ ideal.premap[fb] # 0})

(***************************************************************************)
(* C4.  A successful write of B at O, aligned or not, within or beyond the *)
(* size, across block boundaries or not, followed by a read of len(B)      *)
(* cells at O gives B back; and as long as the calls succeed, every cell   *)
(* written keeps reading as last written, whatever was written since to    *)
(* other cells of its block, and whatever request the read makes.          *)
(***************************************************************************)
WriteReadRoundTrip ==
  /\ (ideal.op = "write" /\ ideal.res = OK) =>
       /\ ReadBack(ideal.pos, ideal.len).res = OK
       /\ ReadBack(ideal.pos, ideal.len).uio.buf = ideal.data
  /\ ideal.ok =>
       \A pos \in 0 .. (MaxFileCells - 1), len \in 1 .. MaxLen :
         /\ ReadBack(pos, len).res = OK
         /\ \A k \in 1 .. Len(ReadBack(pos, len).uio.buf) :
              /\ pos + k <= Len(ideal.cells)
              /\ ideal.cells[pos + k].wr =>
                   ReadBack(pos, len).uio.buf[k] = ideal.cells[pos + k].val

\* a write that starts inside a block, beside a cell an earlier call wrote,
\* and runs on into the next block
WriteReadRoundTripWitness ==
  /\ ideal.op = "write" /\ ideal.res = OK /\ ideal.ok
  /\ ideal.pos % SFS_BLOCKSIZE # 0
  /\ (ideal.pos + ideal.len - 1) \div SFS_BLOCKSIZE > ideal.pos \div SFS_BLOCKSIZE
  /\ ideal.cells[ideal.pos].wr
  /\ ideal.cells[ideal.pos].val # ideal.data[1]

(***************************************************************************)
(* C5.  After successful writes and truncates, every cell below the size   *)
(* that was not written since the file last ended at or below it reads as  *)
(* zero: the gap a write beyond the size leaves, and what a truncate cut   *)
(* off and a later call brought back below the size.                       *)
(***************************************************************************)
GapsReadZero ==
  ideal.ok =>
    \A pos \in 0 .. (Len(ideal.cells) - 1) :
      ~ideal.cells[pos + 1].wr => ReadBack(pos, 1).uio.buf = <<0>>

(***************************************************************************)
(* C6.  When the threads each create a file of a name of their own in the  *)
(* same directory, every creat that found the blocks it may need free      *)
(* succeeds, the directory holds one active entry for each of the names,   *)
(* on the file the creat handed back, and no two of the files have the     *)
(* same inode number.                                                      *)
(***************************************************************************)
\* the inode, a block of the directory, and the directory's indirect block
CreatNeeds == 1 + 1 + 1

CreatsSucceed ==
  /\ panic = "none"
  /\ \A t \in Threads :
       /\ (thr[t].cres # "none" /\ thr[t].cfree >= CreatNeeds) => thr[t].cres = OK
       /\ thr[t].cres = OK =>
            /\ thr[t].cino # SFS_NOINO
            /\ Cardinality({slot \in DOMAIN DirEntries(Now, Root) :
                              DirEntries(Now, Root)[slot].sfd_name = OwnName(t)}) = 1
            /\ \E slot \in DOMAIN DirEntries(Now, Root) :
                 DirEntries(Now, Root)[slot] =
                   [sfd_ino |-> thr[t].cino, sfd_name |-> OwnName(t)]
            /\ \A u \in Threads \ {t} : thr[u].cres = OK => thr[u].cino # thr[t].cino

\* every thread has created its file
CreatsSucceedWitness == \A t \in Threads : thr[t].cres = OK /\ thr[t].cino # SFS_NOINO

(***************************************************************************)
(* C7.  Without device errors, no thread is ever blocked for good: there   *)
(* is no set of threads each standing at the acquisition of a vnode lock   *)
(* that a thread of the set holds, be it the waiting thread itself.        *)
(***************************************************************************)
NoThreadBlockedForever ==
  ~ \E ts \in (SUBSET Threads) \ {{}} : \A t \in ts : \E u \in ts : WaitsFor(t, u)

(***************************************************************************)
(* C8.  A vnode is destroyed, and its blocks are freed, only when no       *)
(* thread but the reclaiming one holds a reference to it: every reference  *)
(* a thread holds is to a vnode of the table in an allocated block, every  *)
(* vnode counts exactly the references held to it, and a file whose link   *)
(* count is zero keeps its inode block and its data blocks as long as it   *)
(* is in the table.                                                        *)
(***************************************************************************)
RefsKeepVnodes ==
  /\ \A t \in Threads :
       /\ \A i \in 1 .. Len(thr[t].held) :
            VnHas(Now, thr[t].held[i]) /\ Used(thr[t].held[i])
       /\ thr[t].pc \in LockPcs => VnHas(Now, thr[t].v) /\ Used(thr[t].v)
  /\ \A k \in 1 .. Len(vn) :
       /\ vn[k].vn_refcount
            = SumRefs(Threads, vn[k].sv_ino) + (IF vn[k].sv_ino = Root THEN 1 ELSE 0)
       /\ \A j \in 1 .. Len(vn) : j # k => vn[j].sv_ino # vn[k].sv_ino
       /\ vn[k].sv_i.sfi_linkcount = 0 =>
            /\ Used(vn[k].sv_ino)
            /\ vn[k].sv_i.sfi_indirect # 0 => Used(vn[k].sv_i.sfi_indirect)
            /\ \A fb \in 0 .. (MaxFileBlocks - 1) :
                 MappedBlock(Now, vn[k].sv_ino, fb) # 0 =>
                   Used(MappedBlock(Now, vn[k].sv_ino, fb))

\* a file that was written to, and then removed by another thread while
\* the writer still holds it: its link count is zero and it has data
RefsKeepVnodesWitness ==
  \E t \in Threads : \E u \in Threads \ {t} :
    /\ thr[u].op = "remove" /\ thr[u].pc = "idle" /\ thr[u].res = OK
    /\ Len(thr[t].held) > 0
    /\ Vn(Now, thr[t].held[1]).sv_i.sfi_linkcount = 0
    /\ Vn(Now, thr[t].held[1]).sv_i.sfi_size > 0

(***************************************************************************)
(* C9.  Whenever no call is in progress, the link count of every inode is  *)
(* the number of directory entries, over all directories and with "." and  *)
(* "..", whose inode number is that inode.                                 *)
(***************************************************************************)
LinkCountsMatch ==
  Quiescent =>
    \A ino \in Inodes : InodeOf(Now, ino).sfi_linkcount = Cardinality(EntriesOf(ino))

(***************************************************************************)
(* C10.  A rename of a name the directory holds to a name it does not hold *)
(* returns, with success, and leaves the old name absent, the new name on  *)
(* the inode the old name was on, and the inode's link count as it was.    *)
(***************************************************************************)
RenameSucceeds ==
  \A t \in Threads :
    (thr[t].op = "rename" /\ thr[t].pre) =>
      /\ ~WaitsFor(t, t)
      /\ thr[t].pc = "idle" => thr[t].res = OK /\ thr[t].post

\* whether s is the filesystem as it is now, whatever device requests were made
SameFs(s) ==
  /\ s.freemap = freemap /\ s.disk = disk /\ s.vn = vn /\ s.panic = panic

\* the link count of every inode of the state s
LinkCounts(s) == [ino \in Inodes |-> InodeOf(s, ino).sfi_linkcount]

\* the cells of the file ino of the state s
FileCells(s, ino) == [k \in 0 .. (InodeOf(s, ino).sfi_size - 1) |-> FileCell(s, ino, k)]

(***************************************************************************)
(* C11.  A rename of a to b that finds b in the directory returns EEXIST   *)
(* and leaves the directory's entries, every link count and the cells of   *)
(* a's file as they were.  Stated of the call at the point where it has    *)
(* looked a up and is about to take the file's lock.                       *)
(***************************************************************************)
RenameExistingRefused ==
  \A t \in Threads :
    (/\ At(t, "rename1") /\ Free(thr[t].v) /\ IsFile(thr[t].v)
     /\ thr[t].name # thr[t].name2
     /\ NameIn(Now, Root, thr[t].name2))
    => /\ Rename1Step(Now, thr[t], t).th.pc = "idle"
       /\ Rename1Step(Now, thr[t], t).th.res = EEXIST
       /\ DirEntries(Rename1Step(Now, thr[t], t).s, Root) = DirEntries(Now, Root)
       /\ LinkCounts(Rename1Step(Now, thr[t], t).s) = LinkCounts(Now)
       /\ FileCells(Rename1Step(Now, thr[t], t).s, thr[t].v) = FileCells(Now, thr[t].v)

(***************************************************************************)
(* C12.  In every reachable state in which the directory's lock is free, a *)
(* creat with excl of a name the directory holds returns EEXIST and leaves *)
(* the free map, the disk, the vnode table and the caller's references as  *)
(* they are; a creat with excl of a name the directory does not hold, with *)
(* the blocks it may need free, succeeds.                                  *)
(***************************************************************************)
CreatExclusiveRefuses ==
  (panic = "none" /\ Free(Root)) =>
    \A t \in Threads, name \in OpNames :
      thr[t].pc = "idle" =>
        IF NameIn(Now, Root, name)
          THEN /\ CreatStep(Now, Begin(thr[t], "creat", name, ""), t, name, TRUE).th
                    = Return(Begin(thr[t], "creat", name, ""), EEXIST, SFS_NOINO)
               /\ SameFs(CreatStep(Now, Begin(thr[t], "creat", name, ""), t, name, TRUE).s)
          ELSE FreeBlocks >= CreatNeeds =>
                 CreatStep(Now, Begin(thr[t], "creat", name, ""), t, name, TRUE).th.res = OK

\* a creat was refused a name that a creat before it had made
CreatExclusiveRefusesWitness ==
  \E t \in Threads : \E u \in Threads :
    /\ thr[t].op = "creat" /\ thr[t].pc = "idle" /\ thr[t].res = EEXIST
    /\ Len(thr[u].held) > 0
    /\ \E slot \in DOMAIN DirEntries(Now, Root) :
         DirEntries(Now, Root)[slot] = [sfd_ino |-> thr[u].held[1], sfd_name |-> thr[t].name]

(***************************************************************************)
(* C13.  In every reachable state in which the directory's lock is free, a *)
(* remove of a name the directory does not hold returns ENOENT and leaves  *)
(* the free map, the disk and the vnode table - so every link count, every *)
(* reference count and every lock - as they are.                           *)
(***************************************************************************)
RemoveAbsentRefuses ==
  (panic = "none" /\ Free(Root)) =>
    \A t \in Threads, name \in OpNames :
      (thr[t].pc = "idle" /\ ~NameIn(Now, Root, name)) =>
        /\ RemoveStep(Now, Begin(thr[t], "remove", name, ""), t, name).th
             = Return(Begin(thr[t], "remove", name, ""), ENOENT, SFS_NOINO)
        /\ SameFs(RemoveStep(Now, Begin(thr[t], "remove", name, ""), t, name).s)

\* a remove of a name after a remove of it that succeeded
RemoveAbsentRefusesWitness ==
  \E t \in Threads : \E u \in Threads \ {t} :
    /\ thr[t].op = "remove" /\ thr[t].pc = "idle" /\ thr[t].res = ENOENT
    /\ thr[u].op = "remove" /\ thr[u].pc = "idle" /\ thr[u].res = OK
    /\ thr[u].name = thr[t].name
    /\ ~NameIn(Now, Root, thr[t].name)

\* the inode the active entry name of directory dir refers to
EntryIno(s, dir, name) ==
  DirEntries(s, dir)[CHOOSE slot \in DOMAIN DirEntries(s, dir) :
                       /\ DirEntries(s, dir)[slot].sfd_ino # SFS_NOINO
                       /\ DirEntries(s, dir)[slot].sfd_name = name].sfd_ino

\* whether name is, in dir, a directory
IsDirIn(s, dir, name) ==
  /\ NameIn(s, dir, name)
  /\ InodeOf(s, EntryIno(s, dir, name)).sfi_type = SFS_TYPE_DIR

\* whether the active entries of directory d are "." and ".." only
OnlyDots(s, d) ==
  \A slot \in DOMAIN DirEntries(s, d) :
    DirEntries(s, d)[slot].sfd_ino # SFS_NOINO
      => DirEntries(s, d)[slot].sfd_name \in {".", ".."}

(***************************************************************************)
(* C14.  In every reachable state, rmdir of a name that is in the          *)
(* directory a directory holding "." and ".." only succeeds and takes the  *)
(* name out of the directory, so that a lookup of it afterwards fails with *)
(* ENOENT.                                                                 *)
(***************************************************************************)
RmdirEmptySucceeds ==
  (panic = "none" /\ Free(Root)) =>
    \A t \in Threads, name \in OpNames :
      (/\ thr[t].pc = "idle"
       /\ IsDirIn(Now, Root, name)
       /\ OnlyDots(Now, EntryIno(Now, Root, name)))
      => /\ RmdirStep(Now, Begin(thr[t], "rmdir", name, ""), name).th.res = OK
         /\ ~NameIn(RmdirStep(Now, Begin(thr[t], "rmdir", name, ""), name).s, Root, name)
         /\ LookupStep(RmdirStep(Now, Begin(thr[t], "rmdir", name, ""), name).s,
                       Begin(thr[t], "lookup", name, ""), name).th.res = ENOENT

(***************************************************************************)
(* C15.  In every reachable state, rmdir of a name that is in the          *)
(* directory a directory with an active entry other than "." and ".."      *)
(* fails with ENOTEMPTY and leaves the filesystem - both directories and   *)
(* every link count - as it is.                                            *)
(***************************************************************************)
RmdirNonEmptyRefused ==
  (panic = "none" /\ Free(Root)) =>
    \A t \in Threads, name \in OpNames :
      (/\ thr[t].pc = "idle"
       /\ IsDirIn(Now, Root, name)
       /\ ~OnlyDots(Now, EntryIno(Now, Root, name)))
      => /\ RmdirStep(Now, Begin(thr[t], "rmdir", name, ""), name).th.res = ENOTEMPTY
         /\ SameFs(RmdirStep(Now, Begin(thr[t], "rmdir", name, ""), name).s)

(***************************************************************************)
(* C16.  A mkdir that returned success left, when it had linked the new    *)
(* directory: a new inode in a used block, of type directory, holding      *)
(* exactly the entries "." on itself and ".." on the directory it was made *)
(* in; its name on it in that directory; its link count 1 and the          *)
(* directory's link count one higher than before.  It hands no vnode back, *)
(* the thread holds no lock, and every vnode counts exactly the references *)
(* the threads hold, so the caller keeps none to the new vnode.            *)
(***************************************************************************)
MkdirMakesDirectory ==
  \A t \in Threads :
    (thr[t].op = "mkdir" /\ thr[t].pc = "idle" /\ thr[t].res = OK) =>
      /\ thr[t].post
      /\ thr[t].ret = SFS_NOINO
      /\ \A k \in 1 .. Len(vn) :
           /\ vn[k].sv_lock # t
           /\ vn[k].vn_refcount
                = SumRefs(Threads, vn[k].sv_ino) + (IF vn[k].sv_ino = Root THEN 1 ELSE 0)

\* a mkdir in a directory other than the root, which the thread had looked up
MkdirMakesDirectoryWitness ==
  \E t \in Threads :
    /\ thr[t].op = "mkdir" /\ thr[t].pc = "idle" /\ thr[t].res = OK /\ thr[t].post
    /\ Len(thr[t].held) > 0
    /\ thr[t].held[1] # Root
    /\ IsDirIn(Now, thr[t].held[1], thr[t].name)

\* what the walk of a path from directory dir comes to: each component is
\* looked up in the directory the component before it named
RECURSIVE Walk(_, _, _)
Walk(s, dir, path) ==
  IF path = <<>> THEN [res |-> OK, ino |-> dir]
  ELSE IF InodeOf(s, dir).sfi_type # SFS_TYPE_DIR THEN [res |-> ENOTDIR, ino |-> SFS_NOINO]
  ELSE IF ~NameIn(s, dir, Head(path)) THEN [res |-> ENOENT, ino |-> SFS_NOINO]
  ELSE Walk(s, EntryIno(s, dir, Head(path)), Tail(path))

(***************************************************************************)
(* C18.  In every reachable state, lookup of a path of one or two          *)
(* components returns what the walk of the path from the directory comes   *)
(* to - the vnode of the last component, ENOTDIR when a component before   *)
(* the last is no directory, ENOENT when a component is absent - and       *)
(* lookparent returns the directory the walk of all components but the     *)
(* last comes to, with the last component as the name.                     *)
(***************************************************************************)
PathsResolve ==
  (panic = "none" /\ Free(Root)) =>
    \A t \in Threads, path \in Paths :
      thr[t].pc = "idle" =>
        /\ LookupStep(Now, Begin(thr[t], "lookup", PathString(path), ""),
                      PathString(path)).th.res = Walk(Now, Root, path).res
        /\ LookupStep(Now, Begin(thr[t], "lookup", PathString(path), ""),
                      PathString(path)).th.ret = Walk(Now, Root, path).ino
        /\ Walk(Now, Root, SubSeq(path, 1, Len(path) - 1)).res = OK =>
             /\ LookparentStep(Now, Begin(thr[t], "lookparent", PathString(path), ""),
                               path).th.ret
                  = Walk(Now, Root, SubSeq(path, 1, Len(path) - 1)).ino
             /\ LookparentStep(Now, Begin(thr[t], "lookparent", PathString(path), ""),
                               path).th.buf = <<path[Len(path)]>>

\* the call whose first step came to r, run on with no other thread acting:
\* a thread that stands at sfs_reclaim gets the vnode's lock if it is free
RunAlone(r) ==
  IF r.th.pc = "reclaim" /\ r.s.panic = "none" /\ LockFree(r.s, r.th.v)
    THEN ReclaimStep(r.s, r.th)
    ELSE r

\* what the first step of a creat, mkdir, link or remove of thread t may come to
Outcomes(t) ==
  {CreatStep(Now, Begin(thr[t], "creat", name, ""), t, name, excl) :
     name \in OpNames, excl \in BOOLEAN}
  \cup {MkdirStep(Now, Begin(thr[t], "mkdir", name, ""), t, Root, name) : name \in OpNames}
  \cup {LinkStep(Now, Begin(thr[t], "link", name, ""), name, thr[t].held[i]) :
          name \in OpNames, i \in 1 .. Len(thr[t].held)}
  \cup {RemoveStep(Now, Begin(thr[t], "remove", name, ""), t, name) : name \in OpNames}

\* the call has returned and the filesystem is as before it: the entries of
\* every directory, every link count, and no block newly used but one that
\* an inode there was before the call maps
RolledBack(r) ==
  /\ r.th.pc = "idle"
  /\ \A d \in Dirs : DirEntries(r.s, d) = DirEntries(Now, d)
  /\ LinkCounts(r.s) = LinkCounts(Now)
  /\ \A b \in Blocks :
       (r.s.freemap[b] /\ ~freemap[b]) =>
         \E ino \in Inodes :
           \/ InodeOf(r.s, ino).sfi_indirect = b
           \/ \E fb \in 0 .. (MaxFileBlocks - 1) : MappedBlock(r.s, ino, fb) = b

(***************************************************************************)
(* C17.  In every reachable state, a creat, link, remove or mkdir that     *)
(* fails with ENOSPC returns, and leaves the filesystem as before the      *)
(* call: the same entries in every directory, the same link counts, and no *)
(* block newly marked used but one that an inode live before the call      *)
(* maps.                                                                   *)
(***************************************************************************)
AllocFailureRollsBack ==
  (panic = "none" /\ Free(Root)) =>
    \A t \in Threads :
      thr[t].pc = "idle" =>
        \A r \in Outcomes(t) : r.th.res = ENOSPC => RolledBack(RunAlone(r))

\* the cells a read of len cells at pos is to hand over
ReadLength(pos, len) ==
  IF pos >= InodeOf(Now, File).sfi_size THEN 0
  ELSE Min({len, InodeOf(Now, File).sfi_size - pos})

(***************************************************************************)
(* C19.  In every reachable state, a read of len cells at pos succeeds,    *)
(* hands over no cell when pos is at or past the size and size - pos cells *)
(* when it crosses the end of the file, leaves the count of the cells not  *)
(* handed over in the residual, and leaves the size as it is.              *)
(***************************************************************************)
ReadsStopAtSize ==
  \A pos \in 0 .. MaxFileCells, len \in 1 .. MaxLen :
    /\ ReadBack(pos, len).res = OK
    /\ Len(ReadBack(pos, len).uio.buf) = ReadLength(pos, len)
    /\ ReadBack(pos, len).uio.resid = len - ReadLength(pos, len)
    /\ InodeOf(ReadBack(pos, len).s, File).sfi_size = InodeOf(Now, File).sfi_size

\* a file that ends inside a block, beyond its first: the read of two cells
\* from its last cell hands over one, the read at its size none
ReadsStopAtSizeWitness ==
  /\ ideal.op = "write" /\ ideal.res = OK
  /\ InodeOf(Now, File).sfi_size > SFS_BLOCKSIZE
  /\ InodeOf(Now, File).sfi_size % SFS_BLOCKSIZE # 0
  /\ ReadBack(InodeOf(Now, File).sfi_size - 1, 2).uio.resid = 1
  /\ ReadBack(InodeOf(Now, File).sfi_size, 2).uio.resid = 2

\* the blocks the file takes: its data blocks and its indirect block
FileBlocks ==
  ({BlockMap[fb] : fb \in 0 .. (MaxFileBlocks - 1)}
   \cup {InodeOf(Now, File).sfi_indirect}) \ {0}

(***************************************************************************)
(* C20.  After a successful write of n cells at offset 0 to the empty      *)
(* file, with nb the blocks n cells take: the size is n; the direct        *)
(* pointers below nb, and no others, are set; the indirect block is there  *)
(* if and only if nb > SFS_NDIRECT, and its entries below nb -             *)
(* SFS_NDIRECT, and no others, are set; and the blocks newly marked used   *)
(* are these nb data blocks, all different, and the indirect block.        *)
(***************************************************************************)
FillMapsBlocks ==
  (ideal.op = "fill" /\ ideal.res = OK) =>
    LET nb == DIVROUNDUP(ideal.len, SFS_BLOCKSIZE)
        inode == InodeOf(Now, File)
    IN /\ inode.sfi_size = ideal.len
       /\ \A fb \in 0 .. (SFS_NDIRECT - 1) : (inode.sfi_direct[fb] # 0) <=> (fb < nb)
       /\ (inode.sfi_indirect # 0) <=> (nb > SFS_NDIRECT)
       /\ inode.sfi_indirect # 0 =>
            \A j \in 0 .. (SFS_DBPERIDB - 1) :
              (disk[inode.sfi_indirect].cells[j] # 0) <=> (SFS_NDIRECT + j < nb)
       /\ Cardinality(FileBlocks) = nb + (IF nb > SFS_NDIRECT THEN 1 ELSE 0)
       /\ \A b \in Blocks : freemap[b] <=> (Created.s.freemap[b] \/ b \in FileBlocks)

\* a write that fills the direct blocks and goes on into the indirect block
FillMapsBlocksWitness ==
  /\ ideal.op = "fill" /\ ideal.res = OK
  /\ DIVROUNDUP(ideal.len, SFS_BLOCKSIZE) > SFS_NDIRECT + 1
  /\ InodeOf(Now, File).sfi_indirect # 0

\* C20 as the scenario has it: a write that takes two blocks leaves one
\* direct data block, one data block in the indirect block, and the indirect
\* block
FillAsInScenario ==
  /\ FillMapsBlocks
  /\ (ideal.op = "fill" /\ ideal.res = OK /\ DIVROUNDUP(ideal.len, SFS_BLOCKSIZE) = 2) =>
       /\ Cardinality({fb \in 0 .. (SFS_NDIRECT - 1) :
                         InodeOf(Now, File).sfi_direct[fb] # 0}) = 1
       /\ InodeOf(Now, File).sfi_indirect # 0
       /\ Cardinality(FileBlocks) = 3

\* the blocks reachable from the inode ino in state s: its data blocks and
\* its indirect block
Reachable(s, ino) ==
  ({MappedBlock(s, ino, fb) : fb \in 0 .. (MaxFileBlocks - 1)}
   \cup {InodeOf(s, ino).sfi_indirect}) \ {0}

\* the truncate to length 0 of the file, called now
TruncatedNow == TruncateStep(Now, Begin(thr[IOThread], "truncate", "", ""), File, 0)

(***************************************************************************)
(* C21.  In every reachable state, a truncate to length 0 of the file that *)
(* succeeds leaves the inode with every direct pointer 0, the indirect     *)
(* pointer 0 and the size 0, and every block that was reachable from the   *)
(* inode - every data block and the indirect block - free in the free map; *)
(* and so it is after the truncate to 0 a thread has made.                 *)
(***************************************************************************)
TruncateToZeroFreesAll ==
  /\ (panic = "none" /\ TruncatedNow.th.res = OK) =>
       /\ TruncatedNow.s.panic = "none"
       /\ \A i \in 0 .. (SFS_NDIRECT - 1) :
            InodeOf(TruncatedNow.s, File).sfi_direct[i] = 0
       /\ InodeOf(TruncatedNow.s, File).sfi_indirect = 0
       /\ InodeOf(TruncatedNow.s, File).sfi_size = 0
       /\ \A b \in Reachable(Now, File) : ~TruncatedNow.s.freemap[b]
       /\ \A b \in Blocks \ Reachable(Now, File) : TruncatedNow.s.freemap[b] = freemap[b]
  /\ (ideal.op = "truncate" /\ ideal.len = 0 /\ ideal.res = OK) =>
       /\ Reachable(Now, File) = {}
       /\ InodeOf(Now, File).sfi_size = 0
       /\ \A fb \in 0 .. (MaxFileBlocks - 1) :
            ideal.premap[fb] # 0 => ~Used(ideal.premap[fb])

\* a truncate to 0 of a file that had data in a direct block and in the
\* indirect block
TruncateToZeroFreesAllWitness ==
  /\ ideal.op = "truncate" /\ ideal.len = 0 /\ ideal.res = OK
  /\ ideal.premap[0] # 0
  /\ \E fb \in SFS_NDIRECT .. (MaxFileBlocks - 1) : ideal.premap[fb] # 0
  /\ Reachable(Now, File) = {}

\* the vnodes whose lock thread t holds
HeldLocks(t) == {vn[k].sv_ino : k \in {j \in 1 .. Len(vn) : vn[j].sv_lock = t}}

\* whether d is a directory with an active entry on the inode ino
Contains(d, ino) ==
  /\ InodeOf(Now, d).sfi_type = SFS_TYPE_DIR
  /\ \E slot \in DOMAIN DirEntries(Now, d) : DirEntries(Now, d)[slot].sfd_ino = ino

\* whether d is a directory that holds the inode ino under a name of its own
ParentOf(d, ino) ==
  /\ InodeOf(Now, d).sfi_type = SFS_TYPE_DIR
  /\ \E slot \in DOMAIN DirEntries(Now, d) :
       /\ DirEntries(Now, d)[slot].sfd_ino = ino
       /\ DirEntries(Now, d)[slot].sfd_name \notin {".", ".."}

\* vnode locks are acquired with neither sfs_vnlock nor sfs_bitlock in hand,
\* sfs_vnlock with neither of the two, sfs_bitlock with at most sfs_vnlock
TableLocksInOrder ==
  \A t \in Threads : \A e \in thr[t].log :
    /\ e.ev \in {SV_LOCK, SFS_VNLOCK} => e.held = {}
    /\ e.ev = SFS_BITLOCK => e.held \subseteq {SFS_VNLOCK}

NoDecrefUnderOwnLock ==
  \A t \in Threads :
    /\ \A e \in thr[t].log : e.ev # DECREF_LOCKED
    /\ ~(thr[t].pc = "reclaim" /\ thr[t].v \in HeldLocks(t))

\* the vnode table with the count of vnode sv one lower and the vnode locks
\* of thread t released
CountedDown(sv, t) ==
  [k \in 1 .. Len(vn) |->
     [vn[k] EXCEPT !.vn_refcount = IF vn[k].sv_ino = sv THEN @ - 1 ELSE @,
                   !.sv_lock = IF @ = t THEN 0 ELSE @]]

(***************************************************************************)
(* C24.  In every reachable state in which a thread stands at sfs_reclaim  *)
(* and the vnode's count is not 1 when it has the vnode lock and           *)
(* sfs_vnlock: sfs_reclaim returns EBUSY, the count is one lower, the      *)
(* vnode stays in the table with its inode, its block pointers and its     *)
(* dirty flag, the free map and the disk are untouched, and the thread has *)
(* returned holding neither lock.                                          *)
(***************************************************************************)
ReclaimBusyLeavesVnode ==
  \A t \in Threads :
    (/\ At(t, "reclaim") /\ Free(thr[t].v)
     /\ Vn(Now, thr[t].v).vn_refcount # 1)
    => /\ ReclaimBody(Now, thr[t].v).res = EBUSY
       /\ ReclaimStep(Now, thr[t]).s.panic = "none"
       /\ ReclaimStep(Now, thr[t]).s.vn = CountedDown(thr[t].v, t)
       /\ ReclaimStep(Now, thr[t]).s.freemap = freemap
       /\ ReclaimStep(Now, thr[t]).s.disk = disk
       /\ ReclaimStep(Now, thr[t]).s.lk = {}
       /\ ReclaimStep(Now, thr[t]).s.log \cap {[ev |-> DEVICE_IO, held |-> h] :
                                                 h \in SUBSET {SFS_VNLOCK, SFS_BITLOCK}} = {}
       /\ ReclaimStep(Now, thr[t]).th.pc = "idle"

\* a thread's sfs_reclaim returned EBUSY: another thread had picked the
\* vnode up, and holds it
ReclaimBusyLeavesVnodeWitness ==
  \E t \in Threads : \E u \in Threads \ {t} :
    /\ thr[t].pc = "idle"
    /\ [ev |-> EBUSY, held |-> {SFS_VNLOCK}] \in thr[t].log
    /\ Len(thr[u].held) > 0
    /\ thr[u].held[1] # Root
    /\ Vn(Now, thr[u].held[1]).vn_refcount = 1

\* the references the table counts for the inode ino in state s
RefCount(s, ino) == IF VnHas(s, ino) THEN Vn(s, ino).vn_refcount ELSE 0

\* the vnodes the table of state s holds for the inode ino
VnodesOf(s, ino) == {k \in 1 .. Len(s.vn) : s.vn[k].sv_ino = ino}

\* 1 for a call that succeeded
Succeeded(l) == IF l.res = OK THEN 1 ELSE 0

\* two calls of sfs_loadvnode for ino, one after the other as sfs_vnlock lets
\* them in; device request f of the first fails (0: none)
LoadedOnce(ino, f) == sfs_loadvnode([Now EXCEPT !.failAt = f], ino, SFS_TYPE_INVAL)

LoadedTwice(ino, f) ==
  sfs_loadvnode([LoadedOnce(ino, f).s EXCEPT !.failAt = 0], ino, SFS_TYPE_INVAL)

Dropped(sv, t) ==
  [k \in 1 .. (Len(vn) - 1) |->
     [vn[IF k < VnIndex(Now, sv) THEN k ELSE k + 1] EXCEPT
        !.sv_lock = IF @ = t THEN 0 ELSE @]]

\* the inode of a file truncated to length 0
Truncated(inode) ==
  [inode EXCEPT !.sfi_size = 0, !.sfi_indirect = 0,
                !.sfi_direct = [i \in 0 .. (SFS_NDIRECT - 1) |-> 0]]

\* sfs_loadvnode of sv after the reclaim thread t stands at
LoadedAgain(t) ==
  sfs_loadvnode([ReclaimStep(Now, thr[t]).s EXCEPT !.log = {}], thr[t].v, SFS_TYPE_INVAL)

(***************************************************************************)
(* C26.  In every reachable state in which a thread stands at sfs_reclaim  *)
(* and the vnode's count is 1, with no device error: the vnode leaves the  *)
(* table, which holds every other vnode as before; if its link count is 0  *)
(* the inode goes to disk truncated to length 0, and the inode block and   *)
(* every block reachable from the inode are freed, no other; if its link   *)
(* count is not 0 the free map is as before and the disk holds the inode   *)
(* as the vnode had it, every other block as before.  sfs_loadvnode then   *)
(* does not find the vnode in the table: it reads the inode from the disk  *)
(* (or, the inode block being free, does not load it at all).              *)
(***************************************************************************)
ReclaimFinishes ==
  \A t \in Threads :
    (/\ At(t, "reclaim") /\ Free(thr[t].v)
     /\ Vn(Now, thr[t].v).vn_refcount = 1)
    => /\ ReclaimStep(Now, thr[t]).s.panic = "none"
       /\ ReclaimStep(Now, thr[t]).th.pc = "idle"
       /\ ReclaimStep(Now, thr[t]).s.vn = Dropped(thr[t].v, t)
       /\ \A b \in Blocks \ {thr[t].v} :
            ReclaimStep(Now, thr[t]).s.disk[b] = disk[b]
       /\ IF Vn(Now, thr[t].v).sv_i.sfi_linkcount = 0
            THEN /\ \A b \in Blocks :
                      ReclaimStep(Now, thr[t]).s.freemap[b]
                        = (freemap[b] /\ b \notin Reachable(Now, thr[t].v) \cup {thr[t].v})
                 /\ ReclaimStep(Now, thr[t]).s.disk[thr[t].v].ino
                      = Truncated(Vn(Now, thr[t].v).sv_i)
                 /\ LoadedAgain(t).res # OK
            ELSE /\ ReclaimStep(Now, thr[t]).s.freemap = freemap
                 /\ ReclaimStep(Now, thr[t]).s.disk[thr[t].v].ino = Vn(Now, thr[t].v).sv_i
                 /\ LoadedAgain(t).res = OK
                 /\ [ev |-> DEVICE_IO, held |-> {SFS_VNLOCK}] \in LoadedAgain(t).s.log
                 /\ Vn(LoadedAgain(t).s, thr[t].v)
                      = NewVnode(thr[t].v, Vn(Now, thr[t].v).sv_i, FALSE)

\* the file, written to and with no name left, was given up by its last
\* holder: its vnode is gone, and its inode block and a block that still has
\* the data written are free
ReclaimFinishesWitness ==
  \E t \in Threads :
    /\ thr[t].op = "release" /\ thr[t].pc = "idle"
    /\ [ev |-> SFS_BITLOCK, held |-> {SFS_VNLOCK}] \in thr[t].log
    /\ ~VnHas(Now, File) /\ ~Used(File)
    /\ disk[File].ino = Truncated(disk[File].ino)
    /\ \E b \in Blocks : ~Used(b) /\ disk[b].cells # ZeroCells

(***************************************************************************)
(* C27.  In no interleaving of link, remove, rename, creat and lookup is a *)
(* fault of the link counts reached: the assert(sfi_linkcount > 0) of      *)
(* remove and of rename does not fail, and sfs_lookonce does not find an   *)
(* entry whose inode has link count 0.                                     *)
(***************************************************************************)
NoLinkCountFault ==
  panic \notin {"remove: assert sfi_linkcount > 0",
                "rename: assert sfi_linkcount > 0",
                "Link count of file found in dir is 0"}

\* the active entries of directory dir in state s
ActiveEntries(s, dir) ==
  {DirEntries(s, dir)[slot] :
     slot \in {i \in DOMAIN DirEntries(s, dir) : DirEntries(s, dir)[i].sfd_ino # SFS_NOINO}}

\* the rename thread t stands at, with device request f failing: the link of
\* the new name, the unlink of the old name after it, and the whole call
RenameLinks(t, f) ==
  sfs_dir_link([Now EXCEPT !.failAt = f], Root, thr[t].name2, thr[t].v)

RenameUnlinks(t, f) ==
  sfs_dir_unlink(AddLink(RenameLinks(t, f).s, thr[t].v, 1), Root, thr[t].slot)

RenameFailing(t, f) == Rename1Step([Now EXCEPT !.failAt = f], thr[t], t)

(***************************************************************************)
(* C28.  A rename whose link of the new name succeeds and whose unlink of  *)
(* the old entry fails returns the error of the unlink and leaves the      *)
(* active entries of the directory and every link count as they were       *)
(* before the call.  Stated of the call where it is about to take the      *)
(* file's lock, for every device request that may fail.                    *)
(***************************************************************************)
RenameUndoes ==
  \A t \in Threads :
    (At(t, "rename1") /\ Free(thr[t].v) /\ IsFile(thr[t].v)) =>
      \A f \in 1 .. (sfs_dir_nentries(Now, Root) + 4) :
        (RenameLinks(t, f).res = OK /\ RenameUnlinks(t, f).res # OK) =>
          /\ RenameFailing(t, f).s.panic = "none"
          /\ RenameFailing(t, f).th.pc = "idle"
          /\ RenameFailing(t, f).th.res = RenameUnlinks(t, f).res
          /\ ActiveEntries(RenameFailing(t, f).s, Root) = ActiveEntries(Now, Root)
          /\ LinkCounts(RenameFailing(t, f).s) = LinkCounts(Now)

\* the call that came to r counted one reference more on the vnode it handed
\* back, if it succeeded, and changed no other count; the thread has returned
\* and holds no lock
CountsOnlyReturned(r, t) ==
  r.s.panic = "none" =>
    /\ r.th.pc = "idle"
    /\ \A ino \in Blocks :
         RefCount(r.s, ino)
           = RefCount(Now, ino) + (IF r.th.res = OK /\ r.th.ret = ino THEN 1 ELSE 0)
    /\ r.th.res = OK => r.th.ret # SFS_NOINO /\ VnHas(r.s, r.th.ret)
    /\ \A k \in 1 .. Len(r.s.vn) : r.s.vn[k].sv_lock # t
    /\ r.s.lk = {}

NoDeviceIoUnderVnlock ==
  \A t \in Threads : \A e \in thr[t].log :
    e.ev = DEVICE_IO => SFS_VNLOCK \notin e.held

(***************************************************************************)
(* C31.  sfs_bitlock is held for the search, mark, unmark or test of the   *)
(* free map only: no thread makes a device request - the clearing of a     *)
(* freshly allocated block included - or acquires a lock with sfs_bitlock  *)
(* in hand, and no thread returns from a call or comes to wait for a vnode *)
(* lock with sfs_bitlock in hand.                                          *)
(***************************************************************************)
BitlockOnlyForBitmap ==
  \A t \in Threads : \A e \in thr[t].log : SFS_BITLOCK \notin e.held

\* a thread has allocated a block - sfs_bitlock taken, the block cleared on
\* the device - and has returned from its call
BitlockOnlyForBitmapWitness ==
  \E t \in Threads :
    /\ thr[t].op = "creat"
    /\ thr[t].res = OK
    /\ \E e \in thr[t].log : e.ev = SFS_BITLOCK
    /\ \E e \in thr[t].log : e.ev = DEVICE_IO
    /\ \E e \in thr[t].log : e.ev = RETURN
    /\ \E b \in Blocks : b > RootData /\ freemap[b]

(***************************************************************************)
(* C32.  Every read and every change of a mutable field of a vnode's       *)
(* inode - size, link count, block pointers, dirty flag - and of a         *)
(* directory's contents is made by a thread with that vnode's lock in      *)
(* hand: the change of the new file's link count in sfs_creat and the look *)
(* at the found file's link count in sfs_lookonce included.                *)
(***************************************************************************)
InodesTouchedUnderLock ==
  \A t \in Threads : \A e \in thr[t].log : e.ev # UNLOCKED

\* the empty slots of directory dir
EmptySlots(s, dir) ==
  {slot \in DOMAIN DirEntries(s, dir) : DirEntries(s, dir)[slot].sfd_ino = SFS_NOINO}

\* sfs_dir_link of the name to inode ino in the root directory as it is now
LinkedNow(name, ino) == sfs_dir_link(Now, Root, name, ino)

(***************************************************************************)
(* C33.  A sfs_dir_link that succeeds writes the entry into the lowest     *)
(* empty slot of the directory if it has an empty slot, and the directory  *)
(* keeps its size; else it writes the entry at the slot whose index is the *)
(* number of slots, and the directory grows by one record.  No other slot  *)
(* changes.                                                                *)
(***************************************************************************)
DirLinkFirstEmptySlot ==
  (panic = "none" /\ Free(Root)) =>
    \A name \in {"a", "b", "c"} :
      LET d == LinkedNow(name, Root)
          nentries == sfs_dir_nentries(Now, Root)
          slot == IF EmptySlots(Now, Root) # {} THEN Min(EmptySlots(Now, Root))
                  ELSE nentries
      IN  d.res = OK =>
            /\ d.slot = slot
            /\ sfs_dir_nentries(d.s, Root) = IF slot = nentries THEN nentries + 1
                                             ELSE nentries
            /\ \A i \in DOMAIN DirEntries(d.s, Root) :
                 DirEntries(d.s, Root)[i]
                   = IF i = slot THEN [sfd_ino |-> Root, sfd_name |-> name]
                     ELSE DirEntries(Now, Root)[i]

\* a name of more than sizeof(sd.sfd_name) - 1 characters
LongName == "a name that does not fit sfd_name"

(***************************************************************************)
(* C34.  sfs_dir_link returns EEXIST when the directory has the name and   *)
(* ENAMETOOLONG when the name does not fit sfd_name, and in both cases     *)
(* every slot of the directory, its size and the free map are as they      *)
(* were.                                                                   *)
(***************************************************************************)
DirLinkRefusals ==
  (panic = "none" /\ Free(Root)) =>
    /\ \A name \in {".", "..", "a", "b", "c"} :
         NameIn(Now, Root, name) =>
           /\ LinkedNow(name, Root).res = EEXIST
           /\ SameFs(LinkedNow(name, Root).s)
    /\ LinkedNow(LongName, Root).res = ENAMETOOLONG
    /\ SameFs(LinkedNow(LongName, Root).s)

\* a link call was refused because the name was there, the directory has an
\* empty slot the entry could have gone to, and a name that does not fit is
\* refused too
DirLinkRefusalsWitness ==
  /\ panic = "none" /\ Free(Root)
  /\ \E t \in Threads : thr[t].op = "link" /\ thr[t].res = EEXIST
  /\ EmptySlots(Now, Root) # {}
  /\ NameIn(Now, Root, "a")
  /\ LinkedNow("a", Root).res = EEXIST
  /\ LinkedNow(LongName, Root).res = ENAMETOOLONG

\* the device requests of one sfs_dir_link, any of which may fail
MaxDirFailAt == 6

\* sfs_dir_link of the name in the root directory as it is now, with device
\* request f failing (0: none); the device works again afterwards
LinkedFailing(name, f) ==
  [sfs_dir_link([Now EXCEPT !.failAt = f], Root, name, Root).s EXCEPT !.failAt = 0]

\* sfs_dir_unlink of the slot, with device request f failing
UnlinkedFailing(slot, f) ==
  [sfs_dir_unlink([Now EXCEPT !.failAt = f], Root, slot).s EXCEPT !.failAt = 0]

\* the size of directory dir is a whole number of records, and sfs_readdir
\* reads each slot below it in full
WholeSlots(s, dir) ==
  /\ Vn(s, dir).sv_i.sfi_size % SFS_DIRSIZE = 0
  /\ \A slot \in 0 .. (sfs_dir_nentries(s, dir) - 1) :
       /\ sfs_readdir(s, dir, slot).res = OK
       /\ sfs_readdir(s, dir, slot).s.panic = "none"

WrittenNow(pos, len, f) ==
  sfs_io([Now EXCEPT !.failAt = f], File, mk_kuio([k \in 1 .. len |-> 1], len, pos, UIO_WRITE))

\* what C36 says of the write r of len cells at pos: r.uio.offset is the end
\* offset the transfer reached
SizeFollowsWrite(r, pos, len) ==
  LET size == Vn(Now, File).sv_i.sfi_size
      E    == r.uio.offset
  IN  /\ E = pos + len - r.uio.resid
      /\ r.res = OK => E = pos + len
      /\ Vn(r.s, File).sv_i.sfi_size = IF E > size THEN E ELSE size
      /\ Vn(r.s, File).sv_i.sfi_size > size => Vn(r.s, File).sv_dirty
      /\ pos + len <= size => Vn(r.s, File).sv_i.sfi_size = size

(***************************************************************************)
(* C36.  After a write that transferred cells up to the end offset E, be   *)
(* it returned with success or stopped early by an error, the file size is *)
(* the larger of the size before and E, and the inode is dirty if the size *)
(* grew; a write that lies within the size leaves the size as it was.      *)
(***************************************************************************)
WriteSetsSize ==
  panic = "none" =>
    \A pos \in 0 .. (MaxFileCells - 1), len \in 1 .. MaxLen, f \in 0 .. MaxFailAt :
      WrittenNow(pos, len, f).s.panic = "none" =>
        SizeFollowsWrite(WrittenNow(pos, len, f), pos, len)

\* the file has cells, and a write across its end that a device error stops
\* part-way leaves it longer than it was and shorter than the whole write
\* would have
WriteSetsSizeWitness ==
  /\ panic = "none"
  /\ Vn(Now, File).sv_i.sfi_size > 0
  /\ ideal.op = "fill"
  /\ \E pos \in 0 .. (MaxFileCells - 1), f \in 1 .. MaxFailAt :
       /\ WrittenNow(pos, MaxLen, f).res = EIO
       /\ WrittenNow(pos, MaxLen, f).uio.offset > Vn(Now, File).sv_i.sfi_size
       /\ WrittenNow(pos, MaxLen, f).uio.offset < pos + MaxLen
       /\ Vn(WrittenNow(pos, MaxLen, f).s, File).sv_i.sfi_size
            = WrittenNow(pos, MaxLen, f).uio.offset

\* the blocks the free map of s marks used
UsedIn(s) == {b \in Blocks : s.freemap[b]}

\* the write requests that reach past the last cell a file can map
PastEnd ==
  {w \in [pos : 0 .. (MaxFileCells + 1), len : 1 .. MaxLen] : w.pos + w.len > MaxFileCells}

(***************************************************************************)
(* C37.  sfs_bmap of a file block past SFS_NDIRECT + SFS_DBPERIDB - 1      *)
(* fails with EINVAL, with doalloc and without, and leaves the free map,   *)
(* the inode and the disk as they were.  So a write that reaches past the  *)
(* last mappable cell fails, every block it allocated on the way is one    *)
(* the file names, and the file names at most SFS_NDIRECT + SFS_DBPERIDB   *)
(* data blocks.                                                            *)
(***************************************************************************)
BmapRefusesBeyond ==
  panic = "none" =>
    /\ \A fileblock \in MaxFileBlocks .. (MaxFileBlocks + SFS_DBPERIDB), doalloc \in BOOLEAN :
         /\ sfs_bmap(Now, File, fileblock, doalloc).res = EINVAL
         /\ SameFs(sfs_bmap(Now, File, fileblock, doalloc).s)
    /\ \A w \in PastEnd :
         LET r == WrittenNow(w.pos, w.len, 0)
         IN  /\ r.res \in {EINVAL, ENOSPC}
             /\ r.s.panic = "none"
             /\ r.res = EINVAL => UsedIn(r.s) \ UsedIn(Now) \subseteq Reachable(r.s, File)
             /\ Cardinality(Reachable(r.s, File) \ {Vn(r.s, File).sv_i.sfi_indirect})
                  <= MaxFileBlocks
             /\ r.uio.offset <= MaxFileCells \/ r.uio.offset = w.pos

\* a write call that reached past the last mappable cell has returned
\* EINVAL, having filled the last block the file can map
BmapRefusesBeyondWitness ==
  /\ panic = "none"
  /\ ideal.op = "write" /\ ideal.res = EINVAL
  /\ ideal.pos + ideal.len > MaxFileCells
  /\ ideal.pos < MaxFileCells
  /\ MappedBlock(Now, File, MaxFileBlocks - 1) # 0
  /\ Vn(Now, File).sv_i.sfi_size = MaxFileCells

\* sfs_io of a read of len cells at pos of the file sv as it is now
ReadNow(sv, pos, len) == sfs_io(Now, sv, mk_kuio(<<>>, len, pos, UIO_READ))

\* s has the free map and the disk of now, every vnode of now with its
\* inode and its dirty flag, and any other vnode clean as its inode on disk
InodesKept(s) ==
  /\ s.freemap = freemap
  /\ s.disk = disk
  /\ \A k \in 1 .. Len(vn) :
       /\ VnHas(s, vn[k].sv_ino)
       /\ Vn(s, vn[k].sv_ino).sv_i = vn[k].sv_i
       /\ Vn(s, vn[k].sv_ino).sv_dirty = vn[k].sv_dirty
  /\ \A k \in 1 .. Len(s.vn) :
       ~VnHas(Now, s.vn[k].sv_ino) =>
         /\ s.vn[k].sv_i = disk[s.vn[k].sv_ino].ino
         /\ ~s.vn[k].sv_dirty

\* the cells the read r at pos handed out that lie in unmapped blocks are 0
HolesReadZero(r, sv, pos) ==
  \A i \in 1 .. Len(r.uio.buf) :
    MappedBlock(Now, sv, (pos + i - 1) \div SFS_BLOCKSIZE) = 0 => r.uio.buf[i] = 0

bNode_search(head, block_num) == \E i \in 1 .. Len(head) : head[i].block_num = block_num

\* get_file_size
get_file_size(fileid) ==
  IF fileid < 0 \/ fileid >= NUM_FILES THEN 0 ELSE ftable[fileid].size

\* get_empty_slot, under slot_count_lock: the slot, and slot_count after it
get_empty_slot(count) ==
  IF count > 0 THEN [ret_val |-> NUM_SLOTS - count, slot_count |-> count - 1]
  ELSE [ret_val |-> -1, slot_count |-> count]

\* Equilikely(0, NUM_SLOTS - 1) when get_empty_slot found none
SlotChoices(ret_val) == IF ret_val = -1 THEN Slots ELSE {ret_val}

\* whether a cache slot holds the block of the file
InCache(file_id, block_num) ==
  \E i \in Slots : cache[i].file_id = file_id /\ cache[i].block_num = block_num

\* read_block returns ret
Returned(pr, ret) == [pr EXCEPT !.pc = "idle", !.ret = ret]

\* read_block up to pthread_mutex_lock(&ftable_locks[file_id])
ReadBlock(p) ==
  /\ proc[p].pc = "idle" /\ proc[p].calls < MaxCalls
  /\ \E file_id \in -1 .. NUM_FILES, block_num \in -1 .. MaxFileSize :
       proc' = [proc EXCEPT ![p] =
                  IF file_id < 0 \/ file_id >= NUM_FILES
                    THEN Returned([Proc0 EXCEPT !.file_id = file_id,
                                                !.block_num = block_num,
                                                !.calls = proc[p].calls + 1], 2)
                    ELSE [Proc0 EXCEPT !.pc = "ftable_lock", !.file_id = file_id,
                                       !.block_num = block_num,
                                       !.calls = proc[p].calls + 1]]
  /\ UNCHANGED <<fsvars, cache, ftable, ftable_locks, cache_locks, slot_count>>

\* read_block from pthread_mutex_lock(&ftable_locks[file_id]) to its
\* return or to pthread_mutex_lock(&cache_locks[slot])
LockFile(p) ==
  LET file_id   == proc[p].file_id
      block_num == proc[p].block_num
      pr        == [proc[p] EXCEPT !.cached = InCache(file_id, block_num)]
      e         == get_empty_slot(slot_count)
  IN
  /\ proc[p].pc = "ftable_lock"
  /\ ftable_locks[file_id] = 0
  /\ IF block_num < 0 \/ block_num >= get_file_size(file_id)
       THEN /\ proc' = [proc EXCEPT ![p] = Returned(pr, 2)]
            /\ UNCHANGED <<ftable_locks, slot_count>>
     ELSE IF bNode_search(ftable[file_id].head, block_num)
       THEN /\ proc' = [proc EXCEPT ![p] = Returned(pr, 1)]
            /\ UNCHANGED <<ftable_locks, slot_count>>
     ELSE /\ \E slot \in SlotChoices(e.ret_val) :
               proc' = [proc EXCEPT ![p] = [pr EXCEPT !.pc = "cache_lock", !.slot = slot]]
          /\ ftable_locks' = [ftable_locks EXCEPT ![file_id] = p]
          /\ slot_count' = e.slot_count
  /\ UNCHANGED <<fsvars, cache, ftable, cache_locks>>

\* read_block from pthread_mutex_lock(&cache_locks[slot]) on: return 0
LockSlot(p) ==
  /\ proc[p].pc = "cache_lock"
  /\ cache_locks[proc[p].slot] = 0
  /\ cache_locks' = [cache_locks EXCEPT ![proc[p].slot] = p]
  /\ proc' = [proc EXCEPT ![p] = Returned(proc[p], 0)]
  /\ UNCHANGED <<fsvars, cache, ftable, ftable_locks, slot_count>>

InitSim ==
  /\ freemap = S0.freemap
  /\ disk = S0.disk
  /\ vn = S0.vn
  /\ panic = "none"
  /\ thr = [t \in Threads |-> Thread0]
  /\ faults = 0
  /\ ideal = IdealNone
  /\ \E size \in [Files -> 1 .. MaxFileSize] : SimInit(size)

NextSim == \E p \in Pids : ReadBlock(p) \/ LockFile(p) \/ LockSlot(p)

SpecSim == InitSim /\ [][NextSim]_vars

\* thread p waits for a mutex whose owner is in no call: nothing unlocks it
BlockedForever(p) ==
  \/ /\ proc[p].pc = "ftable_lock"
     /\ ftable_locks[proc[p].file_id] # 0
     /\ proc[ftable_locks[proc[p].file_id]].pc = "idle"
  \/ /\ proc[p].pc = "cache_lock"
     /\ cache_locks[proc[p].slot] # 0
     /\ proc[cache_locks[proc[p].slot]].pc = "idle"

(***************************************************************************)
(* C39.  A thread of the cache simulator that has returned from read_block *)
(* owns no mutex - neither a file-table lock nor a cache-slot lock - and   *)
(* no thread waits in read_block for a mutex that nothing will unlock.     *)
(***************************************************************************)
MutexesReleasedOnReturn ==
  \A p \in Pids :
    /\ proc[p].pc = "idle" =>
         /\ \A f \in Files : ftable_locks[f] # p
         /\ \A i \in Slots : cache_locks[i] # p
    /\ ~BlockedForever(p)

(***************************************************************************)
(* C40.  read_block returns 2 exactly when file_id is outside              *)
(* [0, NUM_FILES) or block_num is outside [0, size of the file); it        *)
(* returns 1 exactly when the request is valid and the block is in the     *)
(* cache; else it returns 0, and then the block is in a cache slot and on  *)
(* the file's list, so that the same read_block again finds it.            *)
(***************************************************************************)
ReadBlockReturns ==
  \A p \in Pids :
    (proc[p].pc = "idle" /\ proc[p].calls > 0) =>
      LET valid == /\ proc[p].file_id \in Files
                   /\ proc[p].block_num >= 0
                   /\ proc[p].block_num < get_file_size(proc[p].file_id)
      IN  /\ proc[p].ret = 2 <=> ~valid
          /\ proc[p].ret = 1 <=> (valid /\ proc[p].cached)
          /\ proc[p].ret \in {0, 1, 2}
          /\ proc[p].ret = 0 =>
               /\ InCache(proc[p].file_id, proc[p].block_num)
               /\ bNode_search(ftable[proc[p].file_id].head, proc[p].block_num)

====
